---- MODULE Spec2Model ----
(***************************************************************************)
(* Lifecycle core of backend/cost-management: the three service managers   *)
(* (Lambda, Kinesis, CloudWatch), the ResourceController that sequences    *)
(* them, the local state file of the StateManager, the retry_with_backoff  *)
(* decorator and the StateManager with its S3 backups.                     *)
(*                                                                         *)
(* The cloud client is the environment.  A cloud call either succeeds or   *)
(* raises; a fault given to a manager call is persistent, i.e. the call it *)
(* names raises on every attempt retry_with_backoff makes, so the wrapped  *)
(* operation ends by re-raising the last exception.                        *)
(***************************************************************************)
EXTENDS Integers, Sequences, FiniteSets, TLC

VARIABLES
    cloud,           \* live cloud resources: stream, functions, alarms
    function_names,  \* LambdaManager.function_names, fixed by the constructor
    dry_run,         \* the dry_run flag given to the constructors
    state_file,      \* StateManager.state_file: a document or NoFile
    backup_file,     \* the .json.backup sibling of state_file
    ctl,             \* the controller operation in progress / its result
    lastCall,        \* the last direct manager call and its outcome
    prevStop,        \* kind of the clean stop that immediately preceded lastCall
    rw,              \* one call of a function wrapped by retry_with_backoff
    store,           \* the StateManager: local file, .backup file, S3 objects
    savers,          \* two save_state calls racing on one state file
    sim,             \* the arguments and the result of a DryRunSimulator call
    audit            \* the AuditTrail: current operation, reports written

vars == <<cloud, function_names, dry_run, state_file, backup_file, ctl, lastCall, prevStop,
          rw, store, savers, sim, audit>>

\* The variables of the managers and the controller.
lifecycleVars == <<cloud, function_names, dry_run, state_file, backup_file, ctl, lastCall, prevStop>>

----------------------------------------------------------------------------
(* Bounds of the model *)

MaxShards == 2
MaxAlarms == 2
MaxConc == 1

(* Program constants *)

NumTargetFunctions == 2
MINIMAL_SHARD_COUNT == 1
DEFAULT_SHARD_COUNT == 2

Fns == 1..NumTargetFunctions
Alarms == 1..MaxAlarms

\* reserved_concurrent_executions: None is NoLimit; Absent marks a function
\* the cloud does not have (get_function_configuration: ResourceNotFound).
\* The shard-hour price written into the controller's savings formula.
SAVED_SHARD_HOUR_COST == 108

NoLimit == -1
Absent == -2

StreamId == <<"stream", 1>>
FnId(f) == <<"function", f>>
AlarmId(a) == <<"alarm", a>>
AllId == <<"all", 0>>

NoFile == [present |-> FALSE]
NoRetry == [active |-> FALSE]
NoStore == [active |-> FALSE]
NoSavers == [active |-> FALSE]
NoSim == [active |-> FALSE]
NoAudit == [active |-> FALSE]
NoResult == [present |-> FALSE]

Range(s) == {s[i] : i \in 1..Len(s)}

NoDup(s) == \A i, j \in 1..Len(s) : i # j => s[i] # s[j]

\* Ascending sequence of the elements of a finite set of integers.
RECURSIVE SortedSeq(_)
SortedSeq(S) ==
    IF S = {} THEN <<>>
    ELSE LET m == CHOOSE x \in S : \A y \in S : x <= y
         IN <<m>> \o SortedSeq(S \ {m})

Msg(tag, id) == [tag |-> tag, id |-> id]

----------------------------------------------------------------------------
(* service_manager.py *)

\* ServiceResult; dry_run is details.get('dry_run'): "true", "false" or "absent".
ServiceResult(success, operation, service_type, affected, errors, warnings, flag) ==
    [present |-> TRUE, success |-> success, operation |-> operation,
     service_type |-> service_type, resources_affected |-> affected,
     errors |-> errors, warnings |-> warnings, dry_run |-> flag]

\* Outcome of one manager call: the value returned or the exception raised,
\* the cloud afterwards and the mutating cloud calls issued.
Returned(res, c, muts) == [threw |-> FALSE, result |-> res, cloud |-> c, mutations |-> muts]
Raised(kind, c, muts) == [threw |-> TRUE, exc |-> kind, result |-> NoResult, cloud |-> c, mutations |-> muts]

\* The value True returned by restore_configuration.
RestoreTrue == [present |-> TRUE, success |-> TRUE, operation |-> "restore_configuration"]

_is_dry_run(override, ctor) == IF override # "None" THEN override = "True" ELSE ctor

Overrides == {"None", "True", "False"}

----------------------------------------------------------------------------
(* kinesis_manager.py *)

KFaults == [read : BOOLEAN, write : BOOLEAN]

\* _describe_stream raises when the call fails or the stream is missing.
DescribeFails(c, fault) == fault.read \/ ~c.stream.exists

WithShards(c, n) == [c EXCEPT !.stream.shards = n, !.stream.status = "UPDATING"]

KinesisStop(c, is_dry, fault) ==
    IF DescribeFails(c, fault) THEN Raised("AWSServiceError", c, <<>>)
    ELSE IF c.stream.shards <= MINIMAL_SHARD_COUNT
    THEN Returned(ServiceResult(TRUE, "stop", "kinesis", <<StreamId>>, <<>>,
                                <<Msg("already_minimal", StreamId)>>, "absent"), c, <<>>)
    ELSE IF is_dry
    THEN Returned(ServiceResult(TRUE, "stop", "kinesis", <<StreamId>>, <<>>, <<>>, "true"), c, <<>>)
    ELSE IF fault.write
    THEN Raised("AWSServiceError", c, <<Msg("update_shard_count", StreamId)>>)
    ELSE Returned(ServiceResult(TRUE, "stop", "kinesis", <<StreamId>>, <<>>, <<>>, "absent"),
                  WithShards(c, MINIMAL_SHARD_COUNT), <<Msg("update_shard_count", StreamId)>>)

\* KinesisStart with > for >= in the test against the target.
KinesisStart_Strict(c, is_dry, fault) ==
    IF DescribeFails(c, fault) THEN Raised("AWSServiceError", c, <<>>)
    ELSE IF c.stream.shards > DEFAULT_SHARD_COUNT
    THEN Returned(ServiceResult(TRUE, "start", "kinesis", <<StreamId>>, <<>>,
                                <<Msg("already_target", StreamId)>>, "absent"), c, <<>>)
    ELSE IF is_dry
    THEN Returned(ServiceResult(TRUE, "start", "kinesis", <<StreamId>>, <<>>, <<>>, "true"), c, <<>>)
    ELSE IF fault.write
    THEN Raised("AWSServiceError", c, <<Msg("update_shard_count", StreamId)>>)
    ELSE Returned(ServiceResult(TRUE, "start", "kinesis", <<StreamId>>, <<>>, <<>>, "absent"),
                  WithShards(c, DEFAULT_SHARD_COUNT), <<Msg("update_shard_count", StreamId)>>)

KinesisStart(c, is_dry, fault) ==
    IF DescribeFails(c, fault) THEN Raised("AWSServiceError", c, <<>>)
    ELSE IF c.stream.shards >= DEFAULT_SHARD_COUNT
    THEN Returned(ServiceResult(TRUE, "start", "kinesis", <<StreamId>>, <<>>,
                                <<Msg("already_target", StreamId)>>, "absent"), c, <<>>)
    ELSE IF is_dry
    THEN Returned(ServiceResult(TRUE, "start", "kinesis", <<StreamId>>, <<>>, <<>>, "true"), c, <<>>)
    ELSE IF fault.write
    THEN Raised("AWSServiceError", c, <<Msg("update_shard_count", StreamId)>>)
    ELSE Returned(ServiceResult(TRUE, "start", "kinesis", <<StreamId>>, <<>>, <<>>, "absent"),
                  WithShards(c, DEFAULT_SHARD_COUNT), <<Msg("update_shard_count", StreamId)>>)

\* ServiceStatus of get_status; raised when _describe_stream raises.
KinesisStatusOf(c) ==
    IF c.stream.status = "ACTIVE"
    THEN IF c.stream.shards <= MINIMAL_SHARD_COUNT THEN "stopped" ELSE "running"
    ELSE IF c.stream.status = "UPDATING" THEN "starting" ELSE "unknown"

KinesisGetStatus(c, fault) ==
    IF DescribeFails(c, fault) THEN [threw |-> TRUE]
    ELSE [threw |-> FALSE, status |-> KinesisStatusOf(c), total_resources |-> 1,
          running_resources |-> IF KinesisStatusOf(c) = "running" THEN 1 ELSE 0,
          stopped_resources |-> IF KinesisStatusOf(c) = "stopped" THEN 1 ELSE 0]

\* save_configuration: the record of the stream, or an exception.
KinesisSaveConfiguration(c, fault) ==
    IF DescribeFails(c, fault) THEN [threw |-> TRUE]
    ELSE [threw |-> FALSE,
          config |-> [fields |-> {"stream_name", "shard_count"}, shard_count |-> c.stream.shards]]

\* restore_configuration that updates the shard count whatever the stream has.
KinesisRestore_AlwaysUpdates(c, config, fault) ==
    IF ~({"stream_name", "shard_count"} \subseteq config.fields)
    THEN Raised("ValidationError", c, <<>>)
    ELSE IF DescribeFails(c, fault) THEN Raised("AWSServiceError", c, <<>>)
    ELSE IF fault.write
    THEN Raised("AWSServiceError", c, <<Msg("update_shard_count", StreamId)>>)
    ELSE Returned(RestoreTrue, WithShards(c, config.shard_count), <<Msg("update_shard_count", StreamId)>>)

\* restore_configuration(config): no dry-run branch in the source.
KinesisRestore(c, config, fault) ==
    IF ~({"stream_name", "shard_count"} \subseteq config.fields)
    THEN Raised("ValidationError", c, <<>>)
    ELSE IF DescribeFails(c, fault) THEN Raised("AWSServiceError", c, <<>>)
    ELSE IF c.stream.shards = config.shard_count
    THEN Returned(RestoreTrue, c, <<>>)
    ELSE IF fault.write
    THEN Raised("AWSServiceError", c, <<Msg("update_shard_count", StreamId)>>)
    ELSE Returned(RestoreTrue, WithShards(c, config.shard_count), <<Msg("update_shard_count", StreamId)>>)

----------------------------------------------------------------------------
(* lambda_manager.py *)

WriteOutcomes == {"ok", "error", "notfound"}
LFaults == [read : SUBSET Fns, write : [Fns -> WriteOutcomes]]

\* _get_function_config(f): "raise", "none" (function not found) or the
\* reserved concurrency of the function.
GetFunctionConfig(c, f, fault) ==
    IF f \in fault.read THEN [kind |-> "raise"]
    ELSE IF c.functions[f] = Absent THEN [kind |-> "none"]
    ELSE [kind |-> "config", reserved_concurrent_executions |-> c.functions[f]]

LoopStart(c) == [cloud |-> c, affected |-> <<>>, errors |-> <<>>, warnings |-> <<>>, mutations |-> <<>>]

\* LambdaStopOne without the "already stopped" branch.
LambdaStopOne_NoFloorCheck(acc, f, is_dry, fault) ==
    LET cfg == GetFunctionConfig(acc.cloud, f, fault) IN
    IF cfg.kind = "raise"
    THEN [acc EXCEPT !.errors = Append(@, Msg("error", FnId(f)))]
    ELSE IF cfg.kind = "none"
    THEN [acc EXCEPT !.warnings = Append(@, Msg("not_found", FnId(f)))]
    ELSE IF is_dry
    THEN [acc EXCEPT !.affected = Append(@, FnId(f))]
    ELSE IF fault.write[f] # "ok"
    THEN [acc EXCEPT !.errors = Append(@, Msg("error", FnId(f))),
                     !.mutations = Append(@, Msg("put_function_concurrency", FnId(f)))]
    ELSE [acc EXCEPT !.cloud.functions[f] = 0,
                     !.affected = Append(@, FnId(f)),
                     !.mutations = Append(@, Msg("put_function_concurrency", FnId(f)))]

\* One iteration of the loop of stop over function_names.
LambdaStopOne(acc, f, is_dry, fault) ==
    LET cfg == GetFunctionConfig(acc.cloud, f, fault) IN
    IF cfg.kind = "raise"
    THEN [acc EXCEPT !.errors = Append(@, Msg("error", FnId(f)))]
    ELSE IF cfg.kind = "none"
    THEN [acc EXCEPT !.warnings = Append(@, Msg("not_found", FnId(f)))]
    ELSE IF cfg.reserved_concurrent_executions = 0
    THEN [acc EXCEPT !.warnings = Append(@, Msg("already_stopped", FnId(f))),
                     !.affected = Append(@, FnId(f))]
    ELSE IF is_dry
    THEN [acc EXCEPT !.affected = Append(@, FnId(f))]
    ELSE IF fault.write[f] # "ok"
    THEN [acc EXCEPT !.errors = Append(@, Msg("error", FnId(f))),
                     !.mutations = Append(@, Msg("put_function_concurrency", FnId(f)))]
    ELSE [acc EXCEPT !.cloud.functions[f] = 0,
                     !.affected = Append(@, FnId(f)),
                     !.mutations = Append(@, Msg("put_function_concurrency", FnId(f)))]

\* One iteration of the loop of start over function_names.
LambdaStartOne(acc, f, is_dry, fault) ==
    LET cfg == GetFunctionConfig(acc.cloud, f, fault) IN
    IF cfg.kind = "raise"
    THEN [acc EXCEPT !.errors = Append(@, Msg("error", FnId(f)))]
    ELSE IF cfg.kind = "none"
    THEN [acc EXCEPT !.warnings = Append(@, Msg("not_found", FnId(f)))]
    ELSE IF cfg.reserved_concurrent_executions = NoLimit
    THEN [acc EXCEPT !.warnings = Append(@, Msg("already_started", FnId(f))),
                     !.affected = Append(@, FnId(f))]
    ELSE IF is_dry
    THEN [acc EXCEPT !.affected = Append(@, FnId(f))]
    ELSE IF fault.write[f] = "notfound"
    THEN [acc EXCEPT !.warnings = Append(@, Msg("already_started", FnId(f))),
                     !.affected = Append(@, FnId(f)),
                     !.mutations = Append(@, Msg("delete_function_concurrency", FnId(f)))]
    ELSE IF fault.write[f] = "error"
    THEN [acc EXCEPT !.errors = Append(@, Msg("error", FnId(f))),
                     !.mutations = Append(@, Msg("delete_function_concurrency", FnId(f)))]
    ELSE [acc EXCEPT !.cloud.functions[f] = NoLimit,
                     !.affected = Append(@, FnId(f)),
                     !.mutations = Append(@, Msg("delete_function_concurrency", FnId(f)))]

RECURSIVE LambdaLoop(_, _, _, _, _, _)
LambdaLoop(op, acc, names, i, is_dry, fault) ==
    IF i > Len(names) THEN acc
    ELSE LambdaLoop(op,
                    IF op = "stop" THEN LambdaStopOne(acc, names[i], is_dry, fault)
                                   ELSE LambdaStartOne(acc, names[i], is_dry, fault),
                    names, i + 1, is_dry, fault)

LambdaResult(op, acc, is_dry) ==
    Returned(ServiceResult(acc.errors = <<>> /\ Len(acc.affected) > 0, op, "lambda",
                           acc.affected, acc.errors, acc.warnings,
                           IF is_dry THEN "true" ELSE "false"),
             acc.cloud, acc.mutations)

LambdaStop(c, names, is_dry, fault) ==
    LambdaResult("stop", LambdaLoop("stop", LoopStart(c), names, 1, is_dry, fault), is_dry)

LambdaStart(c, names, is_dry, fault) ==
    LambdaResult("start", LambdaLoop("start", LoopStart(c), names, 1, is_dry, fault), is_dry)

\* get_status never raises: a function whose read raises is listed as ERROR.
LambdaGetStatus(c, names, fault) ==
    LET ok == {i \in 1..Len(names) : GetFunctionConfig(c, names[i], fault).kind = "config"}
        stopped == Cardinality({i \in ok : c.functions[names[i]] = 0})
        running == Cardinality(ok) - stopped
    IN [threw |-> FALSE,
        status |-> IF stopped = Len(names) THEN "stopped"
                   ELSE IF running > 0 THEN "running" ELSE "unknown",
        total_resources |-> Len(names),
        running_resources |-> running,
        stopped_resources |-> stopped]

FnRecord(has_name, f, conc) ==
    [has_name |-> has_name, function_name |-> f, reserved_concurrent_executions |-> conc]

\* save_configuration never raises: functions it cannot read are left out.
RECURSIVE LambdaSaveFrom(_, _, _, _)
LambdaSaveFrom(c, names, i, fault) ==
    IF i > Len(names) THEN <<>>
    ELSE LET cfg == GetFunctionConfig(c, names[i], fault)
             rest == LambdaSaveFrom(c, names, i + 1, fault)
         IN IF cfg.kind = "config"
            THEN <<FnRecord(TRUE, names[i], cfg.reserved_concurrent_executions)>> \o rest
            ELSE rest

LambdaSaveConfiguration(c, names, fault) ==
    [threw |-> FALSE, config |-> [has_functions |-> TRUE, functions |-> LambdaSaveFrom(c, names, 1, fault)]]

\* One iteration of the loop of restore_configuration; the entry has a name.
LambdaRestoreOne(acc, rec, fault) ==
    LET f == rec.function_name
        target == rec.reserved_concurrent_executions
        cfg == GetFunctionConfig(acc.cloud, f, fault)
        call == IF target = NoLimit THEN "delete_function_concurrency"
                                    ELSE "put_function_concurrency"
    IN IF cfg.kind # "config" THEN acc
       ELSE IF cfg.reserved_concurrent_executions = target THEN acc
       ELSE IF fault.write[f] = "ok" \/ (target = NoLimit /\ fault.write[f] = "notfound")
       THEN [acc EXCEPT !.cloud.functions[f] = IF fault.write[f] = "ok" THEN target ELSE @,
                        !.mutations = Append(@, Msg(call, FnId(f)))]
       ELSE [acc EXCEPT !.mutations = Append(@, Msg(call, FnId(f)))]

\* restore_configuration: an entry without 'function_name' raises KeyError out
\* of the loop, after the entries before it have been applied.
RECURSIVE LambdaRestoreFrom(_, _, _, _)
LambdaRestoreFrom(acc, recs, i, fault) ==
    IF i > Len(recs) THEN Returned(RestoreTrue, acc.cloud, acc.mutations)
    ELSE IF ~recs[i].has_name THEN Raised("AWSServiceError", acc.cloud, acc.mutations)
    ELSE LambdaRestoreFrom(LambdaRestoreOne(acc, recs[i], fault), recs, i + 1, fault)

LambdaRestore(c, config, fault) ==
    IF ~config.has_functions THEN Raised("ValidationError", c, <<>>)
    ELSE LambdaRestoreFrom(LoopStart(c), config.functions, 1, fault)

----------------------------------------------------------------------------
(* cloudwatch_manager.py *)

CFaults == [read : BOOLEAN, write : BOOLEAN]

\* _list_project_alarms: the alarms the cloud has, in listing order.
ListProjectAlarms(c) == SortedSeq({a \in Alarms : c.alarms[a] # "absent"})

AlarmIds(s) == [i \in 1..Len(s) |-> AlarmId(s[i])]

SetAlarms(c, S, v) == [c EXCEPT !.alarms = [a \in Alarms |-> IF a \in S THEN v ELSE @[a]]]

CloudWatchStop(c, is_dry, fault) ==
    LET alarms == ListProjectAlarms(c)
        alarms_to_disable == SelectSeq(alarms, LAMBDA a : c.alarms[a] = "enabled")
        call == Msg("disable_alarm_actions", AllId)
    IN IF fault.read THEN Raised("AWSServiceError", c, <<>>)
       ELSE IF alarms = <<>>
       THEN Returned(ServiceResult(TRUE, "stop", "cloudwatch", <<>>, <<>>,
                                   <<Msg("no_alarms_found", AllId)>>, "absent"), c, <<>>)
       ELSE IF alarms_to_disable = <<>>
       THEN Returned(ServiceResult(TRUE, "stop", "cloudwatch", AlarmIds(alarms), <<>>,
                                   <<Msg("all_already_disabled", AllId)>>, "absent"), c, <<>>)
       ELSE IF is_dry
       THEN Returned(ServiceResult(TRUE, "stop", "cloudwatch", AlarmIds(alarms_to_disable),
                                   <<>>, <<>>, "true"), c, <<>>)
       ELSE IF fault.write THEN Raised("AWSServiceError", c, <<call>>)
       ELSE Returned(ServiceResult(TRUE, "stop", "cloudwatch", AlarmIds(alarms_to_disable),
                                   <<>>, <<>>, "absent"),
                     SetAlarms(c, Range(alarms_to_disable), "disabled"), <<call>>)

CloudWatchStart(c, is_dry, fault) ==
    LET alarms == ListProjectAlarms(c)
        alarms_to_enable == SelectSeq(alarms, LAMBDA a : c.alarms[a] = "disabled")
        call == Msg("enable_alarm_actions", AllId)
    IN IF fault.read THEN Raised("AWSServiceError", c, <<>>)
       ELSE IF alarms = <<>>
       THEN Returned(ServiceResult(TRUE, "start", "cloudwatch", <<>>, <<>>,
                                   <<Msg("no_alarms_found", AllId)>>, "absent"), c, <<>>)
       ELSE IF alarms_to_enable = <<>>
       THEN Returned(ServiceResult(TRUE, "start", "cloudwatch", AlarmIds(alarms), <<>>,
                                   <<Msg("all_already_enabled", AllId)>>, "absent"), c, <<>>)
       ELSE IF is_dry
       THEN Returned(ServiceResult(TRUE, "start", "cloudwatch", AlarmIds(alarms_to_enable),
                                   <<>>, <<>>, "true"), c, <<>>)
       ELSE IF fault.write THEN Raised("AWSServiceError", c, <<call>>)
       ELSE Returned(ServiceResult(TRUE, "start", "cloudwatch", AlarmIds(alarms_to_enable),
                                   <<>>, <<>>, "absent"),
                     SetAlarms(c, Range(alarms_to_enable), "enabled"), <<call>>)

CloudWatchGetStatus(c, fault) ==
    LET alarms == ListProjectAlarms(c)
        enabled_count == Cardinality({a \in Range(alarms) : c.alarms[a] = "enabled"})
        disabled_count == Len(alarms) - enabled_count
    IN IF fault.read THEN [threw |-> TRUE]
       ELSE IF alarms = <<>>
       THEN [threw |-> FALSE, status |-> "unknown", total_resources |-> 0,
             running_resources |-> 0, stopped_resources |-> 0]
       ELSE [threw |-> FALSE,
             status |-> IF disabled_count = Len(alarms) THEN "stopped"
                        ELSE IF enabled_count > 0 THEN "running" ELSE "unknown",
             total_resources |-> Len(alarms),
             running_resources |-> enabled_count,
             stopped_resources |-> disabled_count]

AlarmRecord(has_name, a, enabled) ==
    [has_name |-> has_name, alarm_name |-> a, actions_enabled |-> enabled]

CloudWatchSaveConfiguration(c, fault) ==
    LET alarms == ListProjectAlarms(c) IN
    IF fault.read THEN [threw |-> TRUE]
    ELSE [threw |-> FALSE,
          config |-> [has_alarms |-> TRUE,
                      alarms |-> [i \in 1..Len(alarms) |->
                                    AlarmRecord(TRUE, alarms[i], c.alarms[alarms[i]] = "enabled")]]]

\* restore_configuration: the loop only sorts the entries into the two batches;
\* the enable batch is sent first, then the disable batch.
CloudWatchRestore(c, config, fault) ==
    IF ~config.has_alarms THEN Raised("ValidationError", c, <<>>)
    ELSE IF fault.read THEN Raised("AWSServiceError", c, <<>>)
    ELSE IF \E i \in 1..Len(config.alarms) : ~config.alarms[i].has_name
    THEN Raised("AWSServiceError", c, <<>>)
    ELSE LET recs == config.alarms
             differs(i) == /\ c.alarms[recs[i].alarm_name] # "absent"
                           /\ (c.alarms[recs[i].alarm_name] = "enabled") # recs[i].actions_enabled
             alarms_to_enable == {recs[i].alarm_name : i \in {j \in 1..Len(recs) : differs(j) /\ recs[j].actions_enabled}}
             alarms_to_disable == {recs[i].alarm_name : i \in {j \in 1..Len(recs) : differs(j) /\ ~recs[j].actions_enabled}}
             en == Msg("enable_alarm_actions", AllId)
             dis == Msg("disable_alarm_actions", AllId)
         IN IF alarms_to_enable # {} /\ fault.write
            THEN Raised("AWSServiceError", c, <<en>>)
            ELSE IF alarms_to_disable # {} /\ fault.write
            THEN Raised("AWSServiceError", c, <<dis>>)
            ELSE Returned(RestoreTrue,
                          SetAlarms(SetAlarms(c, alarms_to_enable, "enabled"), alarms_to_disable, "disabled"),
                          (IF alarms_to_enable # {} THEN <<en>> ELSE <<>>)
                            \o (IF alarms_to_disable # {} THEN <<dis>> ELSE <<>>))

----------------------------------------------------------------------------
(* state_manager.py *)

IOFaults == {"none", "rename", "write"}

ResourceState(resources, metadata) ==
    [present |-> TRUE, version |-> "1.0", resources |-> resources, metadata |-> metadata]

\* _save_to_file writing over the existing file without renaming it first.
SaveToFile_NoBackup(file, backup, doc, io) ==
    IF file.present /\ io = "rename"
    THEN [threw |-> TRUE, file |-> file, backup |-> backup]
    ELSE IF io = "write" THEN [threw |-> TRUE, file |-> NoFile, backup |-> backup]
         ELSE [threw |-> FALSE, file |-> doc, backup |-> backup]

\* _save_to_file: rename an existing file to the backup name, then write.
\* A failing rename leaves both files alone; a failing open-for-write comes
\* after the rename and leaves no state file.
SaveToFile(file, backup, doc, io) ==
    IF file.present /\ io = "rename"
    THEN [threw |-> TRUE, file |-> file, backup |-> backup]
    ELSE LET b == IF file.present THEN file ELSE backup IN
         IF io = "write" THEN [threw |-> TRUE, file |-> NoFile, backup |-> b]
         ELSE [threw |-> FALSE, file |-> doc, backup |-> b]

\* StateManager.save_state: every exception leaves as StateError.
StateManagerSave(file, backup, resources, metadata, io) ==
    SaveToFile(file, backup, ResourceState(resources, metadata), io)

----------------------------------------------------------------------------
(* controller.py *)

SaveFaults == [lambda : SUBSET Fns, kinesis : BOOLEAN, cloudwatch : BOOLEAN, io : IOFaults]

ReadOnly(S) == [read |-> S, write |-> [f \in Fns |-> "ok"]]
ReadFault(b) == [read |-> b, write |-> FALSE]

\* ResourceController.save_state: a manager whose save_configuration raises
\* contributes an empty list; only the StateManager can make it raise.
ControllerSaveState(c, names, file, backup, fault) ==
    LET l == LambdaSaveConfiguration(c, names, ReadOnly(fault.lambda))
        k == KinesisSaveConfiguration(c, ReadFault(fault.kinesis))
        w == CloudWatchSaveConfiguration(c, ReadFault(fault.cloudwatch))
        resources == [lambda_functions |-> l.config.functions,
                      kinesis_streams |-> IF k.threw THEN <<>> ELSE <<k.config>>,
                      cloudwatch_alarms |-> IF w.threw THEN <<>> ELSE w.config.alarms]
    IN StateManagerSave(file, backup, resources, "save_state", fault.io)

Idle == [pc |-> "idle", op |-> "none", is_dry |-> FALSE,
         resources_affected |-> <<>>, errors |-> <<>>, warnings |-> <<>>,
         service_results |-> <<>>, steps |-> <<>>, success |-> FALSE, cost_impact |-> 0,
         verify_fault |-> [lambda |-> {}, kinesis |-> FALSE, cloudwatch |-> FALSE]]

\* One entry of the log of the steps an operation has taken.
Step(name, threw) == [step |-> name, threw |-> threw]

Begin(op, first, is_dry) == [Idle EXCEPT !.pc = first, !.op = op, !.is_dry = is_dry]

\* The entry kept under service_results[kind].
Entry(kind, out) ==
    [kind |-> kind, threw |-> out.threw,
     success |-> IF out.threw THEN FALSE ELSE out.result.success,
     resources_affected |-> IF out.threw THEN <<>> ELSE out.result.resources_affected]

\* Merge with the except branch leaving service_results alone.
Merge_NoEntryOnRaise(t, kind, out, next) ==
    [t EXCEPT !.pc = next,
              !.steps = Append(@, Step(kind, out.threw)),
              !.service_results = IF out.threw THEN @ ELSE Append(@, Entry(kind, out)),
              !.resources_affected = IF out.threw THEN @ ELSE @ \o out.result.resources_affected,
              !.errors = IF out.threw THEN Append(@, Msg("failed", <<kind, 0>>))
                         ELSE @ \o out.result.errors,
              !.warnings = IF out.threw THEN @ ELSE @ \o out.result.warnings]

\* Merge with the except branch forgetting to record the error.
Merge_ForgetsError(t, kind, out, next) ==
    [t EXCEPT !.pc = next,
              !.steps = Append(@, Step(kind, out.threw)),
              !.service_results = Append(@, Entry(kind, out)),
              !.resources_affected = IF out.threw THEN @ ELSE @ \o out.result.resources_affected,
              !.errors = IF out.threw THEN @ ELSE @ \o out.result.errors,
              !.warnings = IF out.threw THEN @ ELSE @ \o out.result.warnings]

\* The try/except around one manager call in stop_all / start_all.
Merge(t, kind, out, next) ==
    [t EXCEPT !.pc = next,
              !.steps = Append(@, Step(kind, out.threw)),
              !.service_results = Append(@, Entry(kind, out)),
              !.resources_affected = IF out.threw THEN @ ELSE @ \o out.result.resources_affected,
              !.errors = IF out.threw THEN Append(@, Msg("failed", <<kind, 0>>))
                         ELSE @ \o out.result.errors,
              !.warnings = IF out.threw THEN @ ELSE @ \o out.result.warnings]

\* _calculate_cost_savings that counts the shard only when the stream's stop
\* has succeeded.
_calculate_cost_savings_OfResults(t) ==
    IF \E i \in DOMAIN t.service_results :
           t.service_results[i].kind = "kinesis" /\ t.service_results[i].success
    THEN 1 * SAVED_SHARD_HOUR_COST * 24 + 0 + 0
    ELSE 0

\* The estimated daily savings of a stop, in units of 1/7200 USD: one shard
\* less, nothing for the functions, nothing for the alarms. t is self.
_calculate_cost_savings(t) == 1 * SAVED_SHARD_HOUR_COST * 24 + 0 + 0

\* Finish with the success test looking at resources_affected only.
Finish_IgnoresErrors(t) ==
    [t EXCEPT !.pc = "done", !.success = (Len(t.resources_affected) > 0)]

\* success = len(errors) == 0 and len(resources_affected) > 0
Finish(t) == [t EXCEPT !.pc = "done",
                       !.success = (Len(t.errors) = 0 /\ Len(t.resources_affected) > 0)]


\* SaveStep with the Lambda and Kinesis steps in each other's place.
SaveStep_KinesisFirst(t, saved) ==
    [t EXCEPT !.pc = "kinesis",
              !.steps = Append(@, IF t.is_dry THEN Step("would_save_state", FALSE)
                                  ELSE Step("save_state", saved.threw)),
              !.errors = IF ~t.is_dry /\ saved.threw
                         THEN Append(@, Msg("failed", <<"save_state", 0>>)) ELSE @]

\* Step 1 of stop_all_resources: a failing save_state is appended to errors.
SaveStep(t, saved) ==
    [t EXCEPT !.pc = "lambda",
              !.steps = Append(@, IF t.is_dry THEN Step("would_save_state", FALSE)
                                  ELSE Step("save_state", saved.threw)),
              !.errors = IF ~t.is_dry /\ saved.threw
                         THEN Append(@, Msg("failed", <<"save_state", 0>>)) ELSE @]

\* LoadStep with a missing or unreadable state appended to errors.
LoadStep_AsError(t, file, load_fails) ==
    [t EXCEPT !.pc = "cloudwatch",
              !.steps = Append(@, IF t.is_dry THEN Step("would_load_state", FALSE)
                                  ELSE Step("load_state", file.present /\ load_fails)),
              !.errors = IF t.is_dry THEN @
                         ELSE IF ~file.present THEN Append(@, Msg("no_saved_state", AllId))
                         ELSE IF load_fails THEN Append(@, Msg("load_failed", AllId))
                         ELSE @]

\* Step 1 of start_all_resources: a missing or unreadable state is a warning.
LoadStep(t, file, load_fails) ==
    [t EXCEPT !.pc = "cloudwatch",
              !.steps = Append(@, IF t.is_dry THEN Step("would_load_state", FALSE)
                                  ELSE Step("load_state", file.present /\ load_fails)),
              !.warnings = IF t.is_dry THEN @
                           ELSE IF ~file.present THEN Append(@, Msg("no_saved_state", AllId))
                           ELSE IF load_fails THEN Append(@, Msg("load_failed", AllId))
                           ELSE @]

VerifyFaults == [lambda : SUBSET Fns, kinesis : BOOLEAN, cloudwatch : BOOLEAN]

\* _verify_resources_operational: one try block around the three queries.
VerifyResourcesOperational(c, names, fault) ==
    LET l == LambdaGetStatus(c, names, ReadOnly(fault.lambda))
        k == KinesisGetStatus(c, ReadFault(fault.kinesis))
        w == CloudWatchGetStatus(c, ReadFault(fault.cloudwatch))
        lw == IF l.stopped_resources > 0 THEN <<Msg("still_stopped", <<"lambda", 0>>)>> ELSE <<>>
    IN IF k.threw THEN <<Msg("verification_failed", AllId)>>
       ELSE LET kw == IF k.status = "stopped" THEN <<Msg("still_stopped", <<"kinesis", 0>>)>>
                      ELSE IF k.status = "starting" THEN <<Msg("still_updating", <<"kinesis", 0>>)>>
                      ELSE <<>>
            IN IF w.threw THEN <<Msg("verification_failed", AllId)>>
               ELSE lw \o kw \o (IF w.stopped_resources > 0
                                 THEN <<Msg("still_stopped", <<"cloudwatch", 0>>)>> ELSE <<>>)

\* Step 5 of start_all_resources and the computation of the result.
VerifyStep(t, c, names, fault) ==
    Finish([t EXCEPT !.steps = Append(@, Step(IF t.is_dry THEN "would_verify" ELSE "verify", FALSE)),
                     !.verify_fault = IF t.is_dry THEN @ ELSE fault,
                     !.warnings = IF t.is_dry THEN @
                                  ELSE @ \o VerifyResourcesOperational(c, names, fault)])

----------------------------------------------------------------------------
(* Actions of the controller *)

NoCall == [present |-> FALSE]

\* A behaviour is one run of the tool: the managers and the controller are
\* constructed against some cloud and one operation is carried out.
Ready == ctl.pc = "idle"

StopSaveState(o, fault) ==
    /\ Ready
    /\ LET is_dry == _is_dry_run(o, dry_run)
           saved == ControllerSaveState(cloud, function_names, state_file, backup_file, fault)
       IN /\ ctl' = SaveStep(Begin("stop", "save", is_dry), saved)
          /\ state_file' = IF is_dry THEN state_file ELSE saved.file
          /\ backup_file' = IF is_dry THEN backup_file ELSE saved.backup
    /\ UNCHANGED <<cloud, function_names, dry_run, audit, rw, store, savers, sim, lastCall, prevStop>>

StopLambda(fault) ==
    /\ ctl.op = "stop" /\ ctl.pc = "lambda"
    /\ LET out == LambdaStop(cloud, function_names, ctl.is_dry, fault)
       IN /\ ctl' = Merge(ctl, "lambda", out, "kinesis")
          /\ cloud' = out.cloud
    /\ UNCHANGED <<function_names, dry_run, audit, rw, store, savers, sim, state_file, backup_file, lastCall, prevStop>>

StopKinesis(fault) ==
    /\ ctl.op = "stop" /\ ctl.pc = "kinesis"
    /\ LET out == KinesisStop(cloud, ctl.is_dry, fault)
       IN /\ ctl' = Merge(ctl, "kinesis", out, "cloudwatch")
          /\ cloud' = out.cloud
    /\ UNCHANGED <<function_names, dry_run, audit, rw, store, savers, sim, state_file, backup_file, lastCall, prevStop>>

StopCloudWatch(fault) ==
    /\ ctl.op = "stop" /\ ctl.pc = "cloudwatch"
    /\ LET out == CloudWatchStop(cloud, ctl.is_dry, fault)
       IN /\ ctl' = [Finish(Merge(ctl, "cloudwatch", out, "done")) EXCEPT
                        !.cost_impact = _calculate_cost_savings(Merge(ctl, "cloudwatch", out, "done"))]
          /\ cloud' = out.cloud
    /\ UNCHANGED <<function_names, dry_run, audit, rw, store, savers, sim, state_file, backup_file, lastCall, prevStop>>

StartLoadState(o, load_fails) ==
    /\ Ready
    /\ ctl' = LoadStep(Begin("start", "load", _is_dry_run(o, dry_run)), state_file, load_fails)
    /\ UNCHANGED <<cloud, function_names, dry_run, audit, rw, store, savers, sim, state_file, backup_file, lastCall, prevStop>>

StartCloudWatch(fault) ==
    /\ ctl.op = "start" /\ ctl.pc = "cloudwatch"
    /\ LET out == CloudWatchStart(cloud, ctl.is_dry, fault)
       IN /\ ctl' = Merge(ctl, "cloudwatch", out, "kinesis")
          /\ cloud' = out.cloud
    /\ UNCHANGED <<function_names, dry_run, audit, rw, store, savers, sim, state_file, backup_file, lastCall, prevStop>>

StartKinesis(fault) ==
    /\ ctl.op = "start" /\ ctl.pc = "kinesis"
    /\ LET out == KinesisStart(cloud, ctl.is_dry, fault)
       IN /\ ctl' = Merge(ctl, "kinesis", out, "lambda")
          /\ cloud' = out.cloud
    /\ UNCHANGED <<function_names, dry_run, audit, rw, store, savers, sim, state_file, backup_file, lastCall, prevStop>>

StartLambda(fault) ==
    /\ ctl.op = "start" /\ ctl.pc = "lambda"
    /\ LET out == LambdaStart(cloud, function_names, ctl.is_dry, fault)
       IN /\ ctl' = Merge(ctl, "lambda", out, "verify")
          /\ cloud' = out.cloud
    /\ UNCHANGED <<function_names, dry_run, audit, rw, store, savers, sim, state_file, backup_file, lastCall, prevStop>>

StartVerify(fault) ==
    /\ ctl.op = "start" /\ ctl.pc = "verify"
    /\ ctl' = VerifyStep(ctl, cloud, function_names, fault)
    /\ UNCHANGED <<cloud, function_names, dry_run, audit, rw, store, savers, sim, state_file, backup_file, lastCall, prevStop>>

(* The environment *)

\* A managed function is deleted from the account.
DeleteFunction(f) ==
    /\ Ready
    /\ cloud.functions[f] # Absent
    /\ cloud' = [cloud EXCEPT !.functions[f] = Absent]
    /\ lastCall' = NoCall /\ prevStop' = "none"
    /\ UNCHANGED <<function_names, dry_run, audit, rw, store, savers, sim, state_file, backup_file, ctl>>

\* A resharding started by update_shard_count completes.
StreamSettles ==
    /\ cloud.stream.exists /\ cloud.stream.status = "UPDATING"
    /\ cloud' = [cloud EXCEPT !.stream.status = "ACTIVE"]
    /\ lastCall' = NoCall /\ prevStop' = "none"
    /\ UNCHANGED <<function_names, dry_run, audit, rw, store, savers, sim, state_file, backup_file, ctl>>

\* Clouds the managers are constructed against.  Functions and alarms are
\* interchangeable, so only one ordering of each combination is started from.
Monotone(f) == \A i, j \in DOMAIN f : i < j => f[i] <= f[j]

AlarmRank(v) == CASE v = "absent" -> 0 [] v = "enabled" -> 1 [] v = "disabled" -> 2

CloudInit(concs) ==
    /\ cloud \in [stream : [exists : {TRUE}, shards : 1..MaxShards, status : {"ACTIVE"}]
                             \cup {[exists |-> FALSE, shards |-> 0, status |-> "ACTIVE"]},
                  functions : [Fns -> {Absent, NoLimit} \cup concs],
                  alarms : [Alarms -> {"absent", "enabled", "disabled"}]]
    /\ Monotone(cloud.functions)
    /\ Monotone([a \in Alarms |-> AlarmRank(cloud.alarms[a])])
    /\ function_names = SortedSeq({f \in Fns : cloud.functions[f] # Absent})
    /\ dry_run \in BOOLEAN

NoSaveFault == [lambda |-> {}, kinesis |-> FALSE, cloudwatch |-> FALSE, io |-> "none"]

\* The state file an earlier, undisturbed save_state of this cloud has left.
PriorDoc(c, names) == ControllerSaveState(c, names, NoFile, NoFile, NoSaveFault).file

Init ==
    /\ CloudInit({0})
    /\ state_file \in {NoFile, PriorDoc(cloud, function_names)}
    /\ backup_file = NoFile
    /\ ctl = Idle
    /\ lastCall = NoCall /\ prevStop = "none"
    /\ rw = NoRetry /\ store = NoStore /\ savers = NoSavers /\ sim = NoSim /\ audit = NoAudit

\* Faults injected into the steps of a controller operation.
CtlLFaults == {fault \in LFaults : \A f, g \in Fns : fault.write[f] = fault.write[g]}
CtlSaveFaults == {fault \in SaveFaults :
                    Cardinality({k \in {"lambda", "kinesis", "cloudwatch"} :
                                   \/ k = "lambda" /\ fault.lambda # {}
                                   \/ k = "kinesis" /\ fault.kinesis
                                   \/ k = "cloudwatch" /\ fault.cloudwatch}) <= 1
                    /\ fault.lambda \in {{}, Fns}}

CtlVerifyFaults == {fault \in VerifyFaults : fault.lambda \in {{}, Fns}}

Next ==
    \/ \E o \in Overrides, fault \in CtlSaveFaults : StopSaveState(o, fault)
    \/ \E fault \in CtlLFaults : StopLambda(fault)
    \/ \E fault \in KFaults : StopKinesis(fault)
    \/ \E fault \in CFaults : StopCloudWatch(fault)
    \/ \E o \in Overrides, load_fails \in BOOLEAN : StartLoadState(o, load_fails)
    \/ \E fault \in CFaults : StartCloudWatch(fault)
    \/ \E fault \in KFaults : StartKinesis(fault)
    \/ \E fault \in CtlLFaults : StartLambda(fault)
    \/ \E fault \in CtlVerifyFaults : StartVerify(fault)
    \/ \E f \in Fns : DeleteFunction(f)
    \/ StreamSettles

Spec == Init /\ [][Next]_vars

----------------------------------------------------------------------------
(* Direct calls of the managers *)

Kinds == {"lambda", "kinesis", "cloudwatch"}

NoLFault == [read |-> {}, write |-> [f \in Fns |-> "ok"]]
NoKFault == [read |-> FALSE, write |-> FALSE]

FaultsOf(kind) == IF kind = "lambda" THEN LFaults ELSE KFaults

Clean(kind, fault) == fault = (IF kind = "lambda" THEN NoLFault ELSE NoKFault)

ManagerStop(kind, c, names, is_dry, fault) ==
    CASE kind = "lambda" -> LambdaStop(c, names, is_dry, fault)
      [] kind = "kinesis" -> KinesisStop(c, is_dry, fault)
      [] kind = "cloudwatch" -> CloudWatchStop(c, is_dry, fault)

ManagerStart(kind, c, names, is_dry, fault) ==
    CASE kind = "lambda" -> LambdaStart(c, names, is_dry, fault)
      [] kind = "kinesis" -> KinesisStart(c, is_dry, fault)
      [] kind = "cloudwatch" -> CloudWatchStart(c, is_dry, fault)

ManagerRestore(kind, c, config, fault) ==
    CASE kind = "lambda" -> LambdaRestore(c, config, fault)
      [] kind = "kinesis" -> KinesisRestore(c, config, fault)
      [] kind = "cloudwatch" -> CloudWatchRestore(c, config, fault)

\* Configuration records handed to restore_configuration.
MaxRecords == 2

SeqsUpTo(S, n) == UNION {[1..k -> S] : k \in 0..n}

\* Per-resource entries; an entry without its name key is one value, since
\* nothing else of it is read.
FnRecords ==
    {FnRecord(TRUE, f, n) : f \in Fns, n \in {NoLimit, 0, MaxConc}}
        \cup {FnRecord(FALSE, 1, NoLimit)}

AlarmRecords ==
    {AlarmRecord(TRUE, a, e) : a \in Alarms, e \in BOOLEAN} \cup {AlarmRecord(FALSE, 1, TRUE)}

KinesisConfigs ==
    {[fields |-> F, shard_count |-> n] : F \in SUBSET {"stream_name", "shard_count"}, n \in 1..MaxShards}

LambdaConfigs ==
    {[has_functions |-> FALSE, functions |-> <<>>]} \cup
    {[has_functions |-> TRUE, functions |-> recs] :
        recs \in SeqsUpTo(FnRecords, MaxRecords)}

CloudWatchConfigs ==
    {[has_alarms |-> FALSE, alarms |-> <<>>]} \cup
    {[has_alarms |-> TRUE, alarms |-> recs] :
        recs \in SeqsUpTo(AlarmRecords, MaxRecords)}

ConfigsOf(kind) ==
    CASE kind = "lambda" -> LambdaConfigs
      [] kind = "kinesis" -> KinesisConfigs
      [] kind = "cloudwatch" -> CloudWatchConfigs

\* Faults injected into restore_configuration.
RestoreFaultsOf(kind) ==
    IF kind = "lambda"
    THEN {fault \in LFaults : fault.read \in {{}, Fns} /\ \A f, g \in Fns : fault.write[f] = fault.write[g]}
    ELSE KFaults

\* The kinds the cloud holds a resource of.
KindsIn(c) ==
    {k \in Kinds :
        \/ k = "kinesis" /\ c.stream.exists
        \/ k = "lambda" /\ \E f \in Fns : c.functions[f] # Absent
        \/ k = "cloudwatch" /\ \E a \in Alarms : c.alarms[a] # "absent"}

\* Each manager reads and changes resources of its own kind only, so the
\* managers are explored against clouds holding resources of one kind, and
\* a manager is called where the cloud holds its kind or nothing at all.
OneKind(c) == Cardinality(KindsIn(c)) <= 1

Callable(kind) == KindsIn(cloud) \subseteq {kind}

\* What a record handed to restore_configuration lacks: a required field of
\* the record ("field"), the name of one of its entries ("name"), or nothing.
Lacks(kind, config) ==
    CASE kind = "kinesis" ->
            IF {"stream_name", "shard_count"} \subseteq config.fields THEN "nothing" ELSE "field"
      [] kind = "lambda" ->
            IF ~config.has_functions THEN "field"
            ELSE IF \E i \in DOMAIN config.functions : ~config.functions[i].has_name THEN "name"
            ELSE "nothing"
      [] kind = "cloudwatch" ->
            IF ~config.has_alarms THEN "field"
            ELSE IF \E i \in DOMAIN config.alarms : ~config.alarms[i].has_name THEN "name"
            ELSE "nothing"

\* The record is complete and every target in it is what the cloud holds now.
AtTargetOf(kind, c, config) ==
    /\ Lacks(kind, config) = "nothing"
    /\ CASE kind = "kinesis" -> c.stream.exists /\ c.stream.shards = config.shard_count
         [] kind = "lambda" ->
               /\ config.functions # <<>>
               /\ \A i \in DOMAIN config.functions :
                     LET r == config.functions[i] IN
                     /\ c.functions[r.function_name] # Absent
                     /\ c.functions[r.function_name] = r.reserved_concurrent_executions
         [] kind = "cloudwatch" ->
               /\ config.alarms # <<>>
               /\ \A i \in DOMAIN config.alarms :
                     LET r == config.alarms[i] IN
                     /\ c.alarms[r.alarm_name] # "absent"
                     /\ (c.alarms[r.alarm_name] = "enabled") = r.actions_enabled

\* What is kept of the argument of a call: nothing for stop and start.
\* Every resource the record lists exists and is at the configuration the
\* record gives for it.
AllAtSaved(kind, c, config) ==
    /\ Lacks(kind, config) = "nothing"
    /\ CASE kind = "kinesis" -> c.stream.exists /\ c.stream.shards = config.shard_count
         [] kind = "lambda" ->
               \A i \in DOMAIN config.functions :
                   c.functions[config.functions[i].function_name]
                       = config.functions[i].reserved_concurrent_executions
         [] kind = "cloudwatch" ->
               \A i \in DOMAIN config.alarms :
                   c.alarms[config.alarms[i].alarm_name]
                       = (IF config.alarms[i].actions_enabled THEN "enabled" ELSE "disabled")

\* The record names no resource twice, as a record of save_configuration.
ListedOnce(kind, config) ==
    /\ Lacks(kind, config) = "nothing"
    /\ CASE kind = "lambda" ->
               \A i, j \in DOMAIN config.functions :
                   config.functions[i].function_name = config.functions[j].function_name => i = j
         [] kind = "cloudwatch" ->
               \A i, j \in DOMAIN config.alarms :
                   config.alarms[i].alarm_name = config.alarms[j].alarm_name => i = j
         [] OTHER -> TRUE

\* reached: the record's resources are all at their saved configuration when
\* the call is over.
NoArgument == [lacks |-> "nothing", at_target |-> FALSE, reached |-> FALSE, listed_once |-> FALSE]
ArgumentOf(kind, c, config, after) ==
    [lacks |-> Lacks(kind, config), at_target |-> AtTargetOf(kind, c, config),
     reached |-> AllAtSaved(kind, after, config), listed_once |-> ListedOnce(kind, config)]

Call(kind, op, is_dry, fault, out, argument) ==
    [present |-> TRUE, kind |-> kind, op |-> op, is_dry |-> is_dry,
     clean |-> Clean(kind, fault), pre |-> cloud, argument |-> argument,
     threw |-> out.threw, exc |-> IF out.threw THEN out.exc ELSE "none",
     result |-> out.result, mutations |-> out.mutations]

\* lastCall was a stop that changed the cloud for real and met no failure.
CleanStop ==
    IF lastCall.present /\ lastCall.op = "stop" /\ ~lastCall.is_dry
       /\ lastCall.clean /\ ~lastCall.threw
    THEN lastCall.kind ELSE "none"

Record(kind, op, is_dry, fault, out, argument) ==
    /\ Callable(kind)
    /\ cloud' = out.cloud
    /\ lastCall' = Call(kind, op, is_dry, fault, out, argument)
    /\ prevStop' = CleanStop
    /\ UNCHANGED <<function_names, dry_run, audit, rw, store, savers, sim, state_file, backup_file, ctl>>

MgrStop(kind, o, fault) ==
    LET is_dry == _is_dry_run(o, dry_run)
    IN Record(kind, "stop", is_dry, fault, ManagerStop(kind, cloud, function_names, is_dry, fault), NoArgument)

MgrStart(kind, o, fault) ==
    LET is_dry == _is_dry_run(o, dry_run)
    IN Record(kind, "start", is_dry, fault, ManagerStart(kind, cloud, function_names, is_dry, fault), NoArgument)

\* restore_configuration takes no override: the mode in force is self.dry_run.
MgrRestore(kind, config, fault) ==
    LET out == ManagerRestore(kind, cloud, config, fault)
    IN Record(kind, "restore", dry_run, fault, out, ArgumentOf(kind, cloud, config, out.cloud))

InitMgr ==
    /\ CloudInit(0..MaxConc)
    /\ OneKind(cloud)
    /\ state_file = NoFile /\ backup_file = NoFile
    /\ ctl = Idle
    /\ lastCall = NoCall /\ prevStop = "none"
    /\ rw = NoRetry /\ store = NoStore /\ savers = NoSavers /\ sim = NoSim /\ audit = NoAudit

NextMgr ==
    \/ \E kind \in Kinds, o \in Overrides : \E fault \in FaultsOf(kind) : MgrStop(kind, o, fault)
    \/ \E kind \in Kinds, o \in Overrides : \E fault \in FaultsOf(kind) : MgrStart(kind, o, fault)
    \/ \E kind \in Kinds : \E config \in ConfigsOf(kind), fault \in RestoreFaultsOf(kind) :
            MgrRestore(kind, config, fault)
    \/ \E f \in Fns : DeleteFunction(f)
    \/ StreamSettles

SpecMgr == InitMgr /\ [][NextMgr]_vars

----------------------------------------------------------------------------
(* Properties of the controller (Spec) *)

IsPrefix(a, b) == Len(a) <= Len(b) /\ \A i \in 1..Len(a) : a[i] = b[i]

StepNames(t) == [i \in 1..Len(t.steps) |-> t.steps[i].step]

Done(op) == ctl.pc = "done" /\ ctl.op = op

Threw(t) == {i \in 1..Len(t.service_results) : t.service_results[i].threw}

InvokedOnce(t, kind) == Cardinality({i \in 1..Len(t.steps) : t.steps[i].step = kind}) = 1

\* C1: when exactly one of the three manager stops raises during stopAll, the
\* other two are still invoked, errors is non-empty, every identifier the two
\* returning managers reported is in resources_affected, and success is false.
C1_PartialFailureAggregation ==
    (Done("stop") /\ Cardinality(Threw(ctl)) = 1) =>
        /\ \A k \in Kinds : InvokedOnce(ctl, k)
        /\ Len(ctl.service_results) = 3
        /\ ctl.errors # <<>>
        /\ \A i \in 1..Len(ctl.service_results) :
              Range(ctl.service_results[i].resources_affected) \subseteq Range(ctl.resources_affected)
        /\ ~ctl.success

C1_Witness ==
    /\ Done("stop") /\ Cardinality(Threw(ctl)) = 1
    /\ \E i, j \in 1..Len(ctl.service_results) :
          /\ i # j
          /\ ctl.service_results[i].success /\ ctl.service_results[i].resources_affected # <<>>
          /\ ctl.service_results[j].success /\ ctl.service_results[j].resources_affected # <<>>

StopOrder(is_dry) ==
    <<IF is_dry THEN "would_save_state" ELSE "save_state", "lambda", "kinesis", "cloudwatch">>

\* C2: stopAll takes its steps in the order snapshot save (only announced in
\* a dry run), FunctionSet, Stream, AlarmSet, whatever a step returns or
\* raises, and when it returns each manager's stop has been invoked once.
C2_StopOrder ==
    ctl.op = "stop" =>
        /\ IsPrefix(StepNames(ctl), StopOrder(ctl.is_dry))
        /\ ctl.pc = "done" <=> StepNames(ctl) = StopOrder(ctl.is_dry)
        /\ ctl.pc = "done" => \A k \in Kinds : InvokedOnce(ctl, k)

C2_Witness ==
    /\ Done("stop") /\ ~ctl.is_dry
    /\ \E i \in 1..Len(ctl.steps) : ctl.steps[i].threw
    /\ StepNames(ctl) = <<"save_state", "lambda", "kinesis", "cloudwatch">>

OnlySaveFailed(t) ==
    /\ t.steps[1].threw
    /\ Threw(t) = {}
    /\ \A i \in 1..Len(t.service_results) : t.service_results[i].success

\* C3: in a non-dry-run stopAll a failing snapshot save is a warning and not an
\* error, the three stops are still invoked, and a run whose only failure is
\* the save and which affects a resource reports success.
C3_SaveFailureIsWarning ==
    (Done("stop") /\ ~ctl.is_dry /\ ctl.steps[1].threw) =>
        /\ \A k \in Kinds : InvokedOnce(ctl, k)
        /\ \A i \in 1..Len(ctl.errors) : ctl.errors[i].id # <<"save_state", 0>>
        /\ (OnlySaveFailed(ctl) /\ ctl.resources_affected # <<>>) => ctl.success

\* C4: the result of stopAll and of startAll has success exactly when errors
\* is empty and resources_affected is not.
C4_AggregateSuccess ==
    ctl.pc = "done" =>
        (ctl.success <=> (ctl.errors = <<>> /\ ctl.resources_affected # <<>>))

C4_Witness ==
    /\ ctl.pc = "done" /\ ~ctl.success
    /\ ctl.errors # <<>> /\ ctl.resources_affected # <<>>

StartOrder(is_dry) ==
    IF is_dry THEN <<"would_load_state", "cloudwatch", "kinesis", "lambda", "would_verify">>
    ELSE <<"load_state", "cloudwatch", "kinesis", "lambda", "verify">>

SnapshotUnavailable == ~state_file.present \/ ctl.steps[1].threw

\* C5: startAll takes its steps in the order snapshot load, AlarmSet, Stream,
\* FunctionSet, verification (load and verification only announced in a dry
\* run); a run that finds no snapshot, or cannot load it, records a warning,
\* no error, and still performs the three starts.
C5_StartOrder ==
    ctl.op = "start" =>
        /\ IsPrefix(StepNames(ctl), StartOrder(ctl.is_dry))
        /\ ctl.pc = "done" <=> StepNames(ctl) = StartOrder(ctl.is_dry)
        /\ (ctl.pc = "done" /\ ~ctl.is_dry /\ SnapshotUnavailable) =>
              /\ \E i \in 1..Len(ctl.warnings) : ctl.warnings[i].tag \in {"no_saved_state", "load_failed"}
              /\ \A i \in 1..Len(ctl.errors) : ctl.errors[i].tag \notin {"no_saved_state", "load_failed"}
              /\ \A k \in Kinds : InvokedOnce(ctl, k)
              /\ (Threw(ctl) = {} /\ \A i \in 1..3 : ctl.service_results[i].success) => ctl.success

C5_Witness ==
    /\ Done("start") /\ ~ctl.is_dry /\ ~state_file.present
    /\ ctl.success

\* The kind is stopped or in transition, as its own status query reports it.
StillDown(kind) ==
    CASE kind = "lambda" -> \E i \in 1..Len(function_names) : cloud.functions[function_names[i]] = 0
      [] kind = "kinesis" -> cloud.stream.exists /\ KinesisStatusOf(cloud) \in {"stopped", "starting"}
      [] kind = "cloudwatch" -> \E a \in Alarms : cloud.alarms[a] = "disabled"

OwnQueryAnswered(kind) ==
    CASE kind = "lambda" -> ctl.verify_fault.lambda = {}
      [] kind = "kinesis" -> ~ctl.verify_fault.kinesis
      [] kind = "cloudwatch" -> ~ctl.verify_fault.cloudwatch

\* C6: the result of a non-dry-run startAll has a warning for every kind that
\* is still stopped or in transition, whatever the status queries of the
\* other kinds return or raise.
C6_VerificationWarnsEveryKind ==
    (Done("start") /\ ~ctl.is_dry) =>
        \A k \in Kinds :
            (StillDown(k) /\ OwnQueryAnswered(k)) =>
                \E i \in 1..Len(ctl.warnings) :
                    /\ ctl.warnings[i].tag \in {"still_stopped", "still_updating"}
                    /\ ctl.warnings[i].id = <<k, 0>>

----------------------------------------------------------------------------
(* Properties of the managers (SpecMgr) *)

\* C7: with dry-run active no stop, start or restore_configuration of a manager
\* issues a mutating cloud call, and the cloud is as it was before the call.
C7_DryRunChangesNothing ==
    (lastCall.present /\ lastCall.is_dry) =>
        /\ lastCall.mutations = <<>>
        /\ cloud = lastCall.pre

\* C8: with dry-run active every stop and start of a manager returns success
\* with the dry-run detail flag set, in every resource state.
C8_DryRunResultFlag ==
    (lastCall.present /\ lastCall.op \in {"stop", "start"} /\ lastCall.is_dry /\ lastCall.clean) =>
        /\ ~lastCall.threw
        /\ lastCall.result.success
        /\ lastCall.result.dry_run = "true"

\* The resources of the kind that are at their floor in cloud c.
StoppedIds(kind, c) ==
    CASE kind = "lambda" -> {FnId(function_names[i]) :
                               i \in {j \in 1..Len(function_names) : c.functions[function_names[j]] = 0}}
      [] kind = "kinesis" -> IF c.stream.exists /\ c.stream.shards <= MINIMAL_SHARD_COUNT
                             THEN {StreamId} ELSE {}
      [] kind = "cloudwatch" -> {AlarmId(a) : a \in {b \in Alarms : c.alarms[b] = "disabled"}}

\* A warning that says the resource (or every resource of the kind) was
\* already stopped.
AlreadyStoppedTags == {"already_stopped", "already_minimal", "all_already_disabled"}
AlreadyStartedTags == {"already_started", "already_target", "all_already_enabled"}

Covers(w, id, tags) == w.tag \in tags /\ w.id \in {id, AllId}

\* C9: the second of two successive stops of a manager, all cloud calls
\* succeeding, has no error, a warning for every already-stopped resource and
\* no identifier twice in resources_affected.
C9_StopTwice ==
    (/\ lastCall.present /\ lastCall.op = "stop" /\ prevStop = lastCall.kind
     /\ lastCall.clean /\ ~lastCall.is_dry) =>
        /\ ~lastCall.threw
        /\ lastCall.result.errors = <<>>
        /\ NoDup(lastCall.result.resources_affected)
        /\ \A id \in StoppedIds(lastCall.kind, lastCall.pre) :
              \E i \in 1..Len(lastCall.result.warnings) :
                  Covers(lastCall.result.warnings[i], id, AlreadyStoppedTags)
        /\ cloud = lastCall.pre

C9_Witness ==
    /\ lastCall.present /\ lastCall.op = "stop" /\ prevStop = lastCall.kind
    /\ lastCall.clean /\ ~lastCall.is_dry
    /\ lastCall.kind = "lambda"
    /\ Cardinality(StoppedIds("lambda", lastCall.pre)) = NumTargetFunctions

\* Every resource of the kind is there and at its floor.
AtFloor(kind, c) ==
    CASE kind = "lambda" -> /\ function_names # <<>>
                            /\ \A i \in 1..Len(function_names) : c.functions[function_names[i]] = 0
      [] kind = "kinesis" -> c.stream.exists /\ c.stream.shards <= MINIMAL_SHARD_COUNT
      [] kind = "cloudwatch" -> /\ \E a \in Alarms : c.alarms[a] # "absent"
                                /\ \A a \in Alarms : c.alarms[a] # "enabled"

\* Every resource of the kind is there and at its operational configuration.
AtTarget(kind, c) ==
    CASE kind = "lambda" -> /\ function_names # <<>>
                            /\ \A i \in 1..Len(function_names) : c.functions[function_names[i]] = NoLimit
      [] kind = "kinesis" -> c.stream.exists /\ c.stream.shards >= DEFAULT_SHARD_COUNT
      [] kind = "cloudwatch" -> /\ \E a \in Alarms : c.alarms[a] # "absent"
                                /\ \A a \in Alarms : c.alarms[a] # "disabled"

NothingToDo ==
    /\ lastCall.present /\ lastCall.clean
    /\ \/ lastCall.op = "stop" /\ AtFloor(lastCall.kind, lastCall.pre)
       \/ lastCall.op = "start" /\ AtTarget(lastCall.kind, lastCall.pre)

\* C10: a stop of a kind at its floor and a start of a kind at its operational
\* configuration, the status reads succeeding, return success with an
\* already-stopped / already-started warning, issue no mutating cloud call and
\* leave the resources as they were.
C10_NothingToDo ==
    NothingToDo =>
        /\ ~lastCall.threw
        /\ lastCall.result.success
        /\ \E i \in 1..Len(lastCall.result.warnings) :
              lastCall.result.warnings[i].tag \in
                  (IF lastCall.op = "stop" THEN AlreadyStoppedTags ELSE AlreadyStartedTags)
        /\ lastCall.mutations = <<>>
        /\ cloud = lastCall.pre

C10_Witness ==
    /\ NothingToDo /\ lastCall.op = "start" /\ lastCall.kind = "kinesis" /\ ~lastCall.is_dry
    /\ lastCall.pre.stream.shards = DEFAULT_SHARD_COUNT

----------------------------------------------------------------------------
(* error_handler.py: retry_with_backoff and the classification of errors *)

MaxRetries == 3

\* Defaults of the decorator and the arguments the managers give it.
INITIAL_DELAY == 1
BACKOFF_FACTOR == 2
MANAGER_MAX_RETRIES == 3

\* Exception classes of exceptions.py; "Exception" is any class outside them
\* (ClientError, KeyError, ...), "none" a normal return.
AWSServiceErrors == {"AWSServiceError", "ThrottlingError", "PermissionError", "ResourceNotFoundError"}
ExceptionClasses == AWSServiceErrors \cup {"ValidationError", "StateError", "Exception"}

\* What the cloud client answers to one call, by class of its error code.
ClientAnswers == {"ok", "throttling", "permission", "not_found", "other"}

\* ErrorHandler.handle_aws_error: the class chosen for a client error.
handle_aws_error(answer) ==
    CASE answer = "throttling" -> "ThrottlingError"
      [] answer = "permission" -> "PermissionError"
      [] answer = "not_found" -> "ResourceNotFoundError"
      [] OTHER -> "AWSServiceError"

\* The wrapped functions: one that raises whatever class it likes, one that
\* is also decorated with safe_aws_call, and the decorated methods of the
\* managers, each making one cloud call.
PlainFuncs == {"function", "safe_aws_call"}
RaisingManagerFuncs ==
    {"KinesisManager.stop", "KinesisManager.start", "KinesisManager._describe_stream",
     "CloudWatchManager.stop", "CloudWatchManager.start"}
CatchingManagerFuncs == {"LambdaManager.stop", "LambdaManager.start"}
ManagerFuncs == RaisingManagerFuncs \cup CatchingManagerFuncs
WrappedFuncs == PlainFuncs \cup ManagerFuncs

\* What one invocation of the function can meet.
BehavioursOf(func) ==
    IF func = "function" THEN ExceptionClasses \cup {"none"} ELSE ClientAnswers

\* The exception one invocation of the function raises ("none": it returns).
\* The except branches of the Kinesis and CloudWatch methods raise a plain
\* AWSServiceError for every client error; those of the loops of
\* LambdaManager.stop / start record the error and raise nothing.
BodyRaises(func, b) ==
    IF func = "function" THEN b
    ELSE IF b = "ok" THEN "none"
    ELSE IF func = "safe_aws_call" THEN handle_aws_error(b)
    ELSE IF func \in CatchingManagerFuncs THEN "none"
    ELSE "AWSServiceError"

\* except exceptions as e, with exceptions = (ThrottlingError, AWSServiceError),
\* catching every exception.
Caught_Everything(exc) == exc \in ExceptionClasses

\* except exceptions as e, with exceptions = (ThrottlingError, AWSServiceError).
Caught(exc) == exc \in AWSServiceErrors

\* The two raise statements of the except branch, not-found never re-raised.
RaisesNow_NotFoundRetried(exc, attempt) == exc = "PermissionError"

\* The two raise statements of the except branch.
RaisesNow(exc, attempt) ==
    \/ exc = "PermissionError"
    \/ exc = "ResourceNotFoundError" /\ attempt > 0

\* if attempt < max_retries, off by one.
SleepsAndRetries_OneLess(attempt, max_retries) == attempt + 1 < max_retries

\* if attempt < max_retries: sleep and go round the loop again.
SleepsAndRetries(attempt, max_retries) == attempt < max_retries

NewWrapperCall(func, max_retries) ==
    [active |-> TRUE, func |-> func, max_retries |-> max_retries,
     pc |-> "call", attempt |-> 0, calls |-> 0,
     delay |-> INITIAL_DELAY, slept |-> <<>>,
     met |-> <<>>, raised |-> <<>>,
     last_exception |-> "none", outcome |-> "none", result |-> "None"]

\* One pass of the body of for attempt in range(max_retries + 1), the
\* function meeting b, up to the sleep.
WrapperHandles(r, b, exc) ==
    LET r1 == [r EXCEPT !.calls = @ + 1, !.met = Append(@, b), !.raised = Append(@, exc)]
    IN IF exc = "none" THEN [r1 EXCEPT !.pc = "returned", !.result = "value"]
       ELSE IF ~Caught(exc) THEN [r1 EXCEPT !.pc = "raised", !.outcome = exc]
       ELSE LET r2 == [r1 EXCEPT !.last_exception = exc]
            IN IF RaisesNow(exc, r.attempt) THEN [r2 EXCEPT !.pc = "raised", !.outcome = exc]
               ELSE IF SleepsAndRetries(r.attempt, r.max_retries) THEN [r2 EXCEPT !.pc = "sleep"]
               ELSE [r2 EXCEPT !.pc = "raised", !.outcome = r2.last_exception]

WrapperAttempt(r, b) == WrapperHandles(r, b, BodyRaises(r.func, b))

\* time.sleep(delay); delay *= backoff_factor; next attempt.
WrapperSleep(r) ==
    [r EXCEPT !.pc = "call", !.slept = Append(@, r.delay),
              !.delay = @ * BACKOFF_FACTOR, !.attempt = @ + 1]

RetryInvoke(b) ==
    /\ rw.active /\ rw.pc = "call"
    /\ b \in BehavioursOf(rw.func)
    /\ rw' = WrapperAttempt(rw, b)
    /\ UNCHANGED <<lifecycleVars, audit, sim, store, savers>>

RetrySleep ==
    /\ rw.active /\ rw.pc = "sleep"
    /\ rw' = WrapperSleep(rw)
    /\ UNCHANGED <<lifecycleVars, audit, sim, store, savers>>

\* No manager, no controller.
EmptyCloud ==
    [stream |-> [exists |-> FALSE, shards |-> 0, status |-> "ACTIVE"],
     functions |-> [f \in Fns |-> Absent],
     alarms |-> [a \in Alarms |-> "absent"]]

NoLifecycle ==
    /\ cloud = EmptyCloud /\ function_names = <<>> /\ dry_run = FALSE
    /\ state_file = NoFile /\ backup_file = NoFile
    /\ ctl = Idle /\ lastCall = NoCall /\ prevStop = "none"

InitRetry ==
    /\ NoLifecycle /\ store = NoStore /\ savers = NoSavers /\ sim = NoSim /\ audit = NoAudit
    /\ \E func \in WrappedFuncs, n \in 0..MaxRetries :
          /\ func \in ManagerFuncs => n = MANAGER_MAX_RETRIES
          /\ rw = NewWrapperCall(func, n)

NextRetry ==
    \/ \E b \in ExceptionClasses \cup ClientAnswers \cup {"none"} : RetryInvoke(b)
    \/ RetrySleep

SpecRetry == InitRetry /\ [][NextRetry]_vars

\* The caller's thread keeps running: a call or a sleep that can be taken is.
SpecRetryLive == SpecRetry /\ WF_vars(NextRetry)

Finished == rw.pc \in {"returned", "raised"}

AllMet(S) == \A i \in 1..Len(rw.met) : rw.met[i] \in S

\* C11: a wrapped function that fails with a permission error, a validation
\* error or any exception outside the retryable classes is invoked once; the
\* exception reaches the caller with no retry and no sleep.
C11_NoRetryOutsideRetryable ==
    (rw.active /\ rw.func = "function" /\ rw.calls >= 1
     /\ rw.raised[1] \in {"PermissionError", "ValidationError", "StateError", "Exception"}) =>
        /\ rw.pc = "raised" /\ rw.outcome = rw.raised[1]
        /\ rw.calls = 1
        /\ rw.slept = <<>>

C11_Witness ==
    /\ rw.active /\ rw.func = "function" /\ rw.max_retries >= 1
    /\ rw.pc = "raised" /\ rw.calls = 1 /\ rw.raised = <<"ValidationError">>

\* C12: with max_retries >= 1, a wrapped function that fails with not-found
\* on every attempt is invoked twice: the first failure is retried once, the
\* second reaches the caller.
C12_NotFoundRetriedOnce ==
    (rw.active /\ rw.func = "function" /\ rw.max_retries >= 1
     /\ AllMet({"ResourceNotFoundError"})) =>
        /\ rw.calls <= 2
        /\ Finished <=> rw.calls = 2
        /\ Finished => rw.pc = "raised" /\ rw.outcome = "ResourceNotFoundError" /\ Len(rw.slept) = 1

C12_Witness ==
    /\ rw.active /\ rw.func = "function" /\ rw.max_retries = MaxRetries
    /\ rw.pc = "raised" /\ rw.raised = <<"ResourceNotFoundError", "ResourceNotFoundError">>

\* What never fails of a call whose every failure is throttling / transient.
C13_Safety ==
    (rw.active /\ rw.func = "function") =>
        /\ rw.calls <= rw.max_retries + 1
        /\ \A i \in 1..Len(rw.raised) :
              rw.raised[i] = "none" => (i = Len(rw.raised) /\ rw.pc = "returned" /\ rw.result = "value")
        /\ (rw.calls >= 1 /\ AllMet({"ThrottlingError", "AWSServiceError"})) =>
              /\ Finished <=> rw.calls = rw.max_retries + 1
              /\ Finished => /\ rw.pc = "raised"
                             /\ rw.outcome = rw.raised[rw.calls]
                             /\ Len(rw.slept) = rw.max_retries

\* C13: a wrapped function that fails with a throttling / transient error on
\* every attempt is invoked max_retries + 1 times and then the last exception
\* reaches the caller; the wrapper always terminates; once an attempt succeeds
\* its value is returned and no further attempt is made.
C13_RetryCapAndTermination == []C13_Safety /\ <>Finished

C13_Witness ==
    /\ rw.active /\ rw.func = "function" /\ rw.max_retries = MaxRetries
    /\ rw.pc = "raised" /\ rw.calls = MaxRetries + 1
    /\ AllMet({"ThrottlingError"})

\* C14: a permission-class error of the cloud client inside a manager's stop
\* or start is surfaced after one attempt of that cloud call, never retried.
C14_PermissionNotRetriedInManagers ==
    (rw.active /\ rw.func \in ManagerFuncs /\ rw.calls >= 1 /\ rw.met[1] = "permission") =>
        /\ rw.calls = 1
        /\ rw.slept = <<>>
        /\ rw.func \in RaisingManagerFuncs => rw.pc = "raised"

----------------------------------------------------------------------------
(* The decorated stop / start of a manager calling its decorated helper
   (SpecNest) *)

\* stop and start of KinesisManager and CloudWatchManager carry
\* @retry_with_backoff(max_retries=3) and begin by calling the helper that
\* reads the cloud, which carries the same decorator.
NestedFuncs ==
    {"KinesisManager.stop", "KinesisManager.start",
     "CloudWatchManager.stop", "CloudWatchManager.start"}

HelperOf(func) ==
    IF func \in {"KinesisManager.stop", "KinesisManager.start"}
    THEN "KinesisManager._describe_stream"
    ELSE "CloudWatchManager._list_project_alarms"

\* What the cloud answers in these calls: success, throttling, or another
\* transient error.
NestAnswers == {"ok", "throttling", "other"}

\* The attempts of one cloud call so far: how many, and whether every one
\* failed with a throttling / transient error.
NoAttempts == [n |-> 0, failing |-> TRUE]

Attempted(a, b) == [n |-> a.n + 1, failing |-> a.failing /\ b # "ok"]

\* One call of the decorated method: the wrapper of the method, the wrapper
\* of the helper while the body is in it, and the answers each cloud call
\* has had. mutates: the configuration read calls for the mutating call.
NewNestedCall(func, mutates) ==
    [active |-> TRUE, func |-> func, mutates |-> mutates,
     outer |-> NewWrapperCall(func, MANAGER_MAX_RETRIES),
     inner |-> NoRetry,
     pc |-> "wrapper",
     reads |-> NoAttempts, writes |-> NoAttempts]

\* The wrapper of the method invokes the body, whose first statement calls
\* the helper: a new wrapper call of the helper begins.
NestEnterBody ==
    /\ rw.active /\ rw.pc = "wrapper" /\ rw.outer.pc = "call"
    /\ rw' = [rw EXCEPT !.pc = "helper",
                        !.inner = NewWrapperCall(HelperOf(rw.func), MANAGER_MAX_RETRIES)]
    /\ UNCHANGED <<lifecycleVars, audit, sim, store, savers>>

\* One attempt of the helper: the cloud answers b to its read.
NestHelperCall(b) ==
    /\ rw.active /\ rw.pc = "helper" /\ rw.inner.pc = "call"
    /\ b \in NestAnswers
    /\ rw' = [rw EXCEPT !.inner = WrapperHandles(@, b, IF b = "ok" THEN "none" ELSE "AWSServiceError"),
                        !.reads = Attempted(@, b)]
    /\ UNCHANGED <<lifecycleVars, audit, sim, store, savers>>

NestHelperSleep ==
    /\ rw.active /\ rw.pc = "helper" /\ rw.inner.pc = "sleep"
    /\ rw' = [rw EXCEPT !.inner = WrapperSleep(@)]
    /\ UNCHANGED <<lifecycleVars, audit, sim, store, savers>>

\* The helper's wrapper gave up and raised: except Exception of the method
\* raises AWSServiceError, which the wrapper of the method handles.
NestHelperRaised ==
    /\ rw.active /\ rw.pc = "helper" /\ rw.inner.pc = "raised"
    /\ rw' = [rw EXCEPT !.pc = "wrapper",
                        !.outer = WrapperHandles(@, "helper", "AWSServiceError")]
    /\ UNCHANGED <<lifecycleVars, audit, sim, store, savers>>

\* The helper returned and nothing is to change: the method returns.
NestNothingToDo ==
    /\ rw.active /\ rw.pc = "helper" /\ rw.inner.pc = "returned" /\ ~rw.mutates
    /\ rw' = [rw EXCEPT !.pc = "wrapper", !.outer = WrapperHandles(@, "ok", "none")]
    /\ UNCHANGED <<lifecycleVars, audit, sim, store, savers>>

\* The helper returned and the method makes its mutating call, answered b:
\* except ClientError raises AWSServiceError.
NestMutatingCall(b) ==
    /\ rw.active /\ rw.pc = "helper" /\ rw.inner.pc = "returned" /\ rw.mutates
    /\ b \in NestAnswers
    /\ rw' = [rw EXCEPT !.pc = "wrapper",
                        !.outer = WrapperHandles(@, b, IF b = "ok" THEN "none" ELSE "AWSServiceError"),
                        !.writes = Attempted(@, b)]
    /\ UNCHANGED <<lifecycleVars, audit, sim, store, savers>>

NestSleep ==
    /\ rw.active /\ rw.pc = "wrapper" /\ rw.outer.pc = "sleep"
    /\ rw' = [rw EXCEPT !.outer = WrapperSleep(@)]
    /\ UNCHANGED <<lifecycleVars, audit, sim, store, savers>>

InitNest ==
    /\ NoLifecycle /\ store = NoStore /\ savers = NoSavers /\ sim = NoSim /\ audit = NoAudit
    /\ \E func \in NestedFuncs, mutates \in BOOLEAN : rw = NewNestedCall(func, mutates)

NextNest ==
    \/ NestEnterBody
    \/ \E b \in NestAnswers : NestHelperCall(b)
    \/ NestHelperSleep
    \/ NestHelperRaised
    \/ NestNothingToDo
    \/ \E b \in NestAnswers : NestMutatingCall(b)
    \/ NestSleep

SpecNest == InitNest /\ [][NextNest]_vars

\* C37: within one stop / start call of a manager a cloud call that keeps
\* failing with a throttling or transient error is attempted at most
\* max_retries + 1 = 4 times in total, the wrappers of the method and of its
\* helper not multiplying the attempts.
C37_AttemptsNotMultiplied ==
    (rw.active /\ rw.func \in NestedFuncs) =>
        /\ rw.reads.failing => rw.reads.n <= MANAGER_MAX_RETRIES + 1
        /\ rw.writes.failing => rw.writes.n <= MANAGER_MAX_RETRIES + 1

----------------------------------------------------------------------------
(* state_manager.py: documents and their JSON text *)

MaxSaves == 2

\* Python values held by the fields of a configuration record: an int, a
\* list and a tuple.
PyInt == [t |-> "int"]
PyList == [t |-> "list"]
PyTuple == [t |-> "tuple"]

\* Dictionary keys: the n-th string, the integer n, and str(n).
StrKey(n) == [t |-> "str", v |-> n, digits |-> FALSE]
IntKey(n) == [t |-> "int", v |-> n, digits |-> TRUE]
NumeralKey(n) == [t |-> "str", v |-> n, digits |-> TRUE]

\* A dict is the sequence of its items in insertion order.
Item(k, val) == [k |-> k, val |-> val]

EmptyDict == <<>>
PlainDict == <<Item(StrKey(1), PyInt)>>
UnsortedDict == <<Item(StrKey(2), PyInt), Item(StrKey(1), PyList)>>
TupleDict == <<Item(StrKey(1), PyTuple)>>
IntKeyDict == <<Item(IntKey(1), PyInt)>>

\* Values of a resource kind: a list of records, or something that is no list.
ListOf(items) == [t |-> "list", items |-> items]
NotAList == [t |-> "int", items |-> <<>>]

KindNames == {"lambda_functions", "kinesis_streams"}

\* Resource maps given to save_state: the stream's list, with or without an
\* entry for the functions.
KindValues(kind) ==
    IF kind = "lambda_functions"
    THEN {ListOf(<<UnsortedDict>>), ListOf(<<TupleDict>>), ListOf(<<IntKeyDict>>), NotAList}
    ELSE {ListOf(<<PlainDict>>)}

ResourceMaps ==
    UNION {{R \in [S -> UNION {KindValues(k) : k \in S}] : \A k \in S : R[k] \in KindValues(k)} :
             S \in {T \in SUBSET KindNames : "kinesis_streams" \in T}}

\* metadata: Optional[Dict[str, Any]].
NoneValue == [t |-> "none", d |-> <<>>]
DictValue(d) == [t |-> "dict", d |-> d]
Metadatas == {NoneValue, DictValue(UnsortedDict)}

\* Order of keys under sort_keys=True: numerals before letters.
KeyLess(a, b) == (a.digits /\ ~b.digits) \/ (a.digits = b.digits /\ a.v < b.v)

RECURSIVE SortDict(_)
SortDict(d) ==
    IF d = <<>> THEN <<>>
    ELSE LET i == CHOOSE j \in DOMAIN d : \A h \in DOMAIN d : h # j => KeyLess(d[j].k, d[h].k)
         IN <<d[i]>> \o SortDict([j \in 1..(Len(d) - 1) |-> IF j < i THEN d[j] ELSE d[j + 1]])

\* json.dumps then json.loads: a tuple comes back a list, an int key comes
\* back the string of its digits, the items come back in key order.
JsonKey(k) == IF k.t = "int" THEN NumeralKey(k.v) ELSE k
JsonValue(val) == IF val = PyTuple THEN PyList ELSE val
JsonDict(d) == SortDict([i \in DOMAIN d |-> Item(JsonKey(d[i].k), JsonValue(d[i].val))])
JsonList(l) == ListOf([i \in DOMAIN l.items |-> JsonDict(l.items[i])])

\* dict.__eq__ : same items whatever the order; list.__eq__ : elementwise.
DictEq(a, b) == Len(a) = Len(b) /\ Range(a) = Range(b)
ListEq(a, b) ==
    /\ a.t = b.t /\ Len(a.items) = Len(b.items)
    /\ \A i \in DOMAIN a.items : DictEq(a.items[i], b.items[i])
ResourcesEq(A, B) == DOMAIN A = DOMAIN B /\ \A k \in DOMAIN A : ListEq(A[k], B[k])

RequiredFields == {"version", "timestamp", "project", "environment", "resources"}

\* The text of a file or of an S3 object: a JSON document or something else.
NotJson == [json |-> FALSE]
JsonText(fields, resources_is_dict, resources, metadata) ==
    [json |-> TRUE, fields |-> fields, resources_is_dict |-> resources_is_dict,
     resources |-> resources, metadata |-> metadata]

\* A serialisation that leaves the metadata out.
Dumps_DropsMetadata(R, M) ==
    JsonText(RequiredFields \cup {"metadata"}, TRUE,
             [k \in DOMAIN R |-> JsonList(R[k])], EmptyDict)

\* json.dumps(state.to_dict(), indent=2, sort_keys=True)
Dumps(R, M) ==
    JsonText(RequiredFields \cup {"metadata"}, TRUE,
             [k \in DOMAIN R |-> JsonList(R[k])], JsonDict(M))

\* _validate_state on a parsed document.
ValidState(text) ==
    /\ RequiredFields \subseteq text.fields
    /\ text.resources_is_dict
    /\ \A k \in DOMAIN text.resources : text.resources[k].t = "list"

\* ResourceState.from_dict: cls(**data) takes the six fields and no other.
FromDictOk(text) == text.fields \subseteq RequiredFields \cup {"metadata"}

FileOf(text) == [present |-> TRUE, text |-> text]

Outcome(op, st, threw, value) ==
    [op |-> op, threw |-> threw, value |-> value,
     pre_file |-> st.file, pre_backup |-> st.backup, pre_s3 |-> st.s3]

NoValue == [none |-> TRUE]

\* The key and the modification time of the object put at time clock.
ObjectAt(clock, text) == [key |-> clock, mtime |-> clock, text |-> text]

\* The upload of save_state with its failure let through.
UploadAfterSave_Raising(st, text, upload_fails) ==
    LET failed == st.s3_configured /\ upload_fails IN
    [raised |-> failed, failed |-> failed,
     s3 |-> IF st.s3_configured /\ ~upload_fails THEN st.s3 \cup {ObjectAt(st.clock, text)} ELSE st.s3,
     clock |-> IF st.s3_configured /\ ~upload_fails THEN st.clock + 1 ELSE st.clock]

\* The upload at the end of save_state: tried when a bucket is configured,
\* its exception caught and logged.
UploadAfterSave(st, text, upload_fails) ==
    LET failed == st.s3_configured /\ upload_fails IN
    [raised |-> FALSE, failed |-> failed,
     s3 |-> IF st.s3_configured /\ ~upload_fails THEN st.s3 \cup {ObjectAt(st.clock, text)} ELSE st.s3,
     clock |-> IF st.s3_configured /\ ~upload_fails THEN st.clock + 1 ELSE st.clock]

\* save_state without its check of the resource lists.
save_state_Unchecked(st, R, M, io, upload_fails) ==
    LET metadata == IF M.t = "none" THEN EmptyDict ELSE M.d
        text == Dumps(R, metadata)
        w == SaveToFile(st.file, st.backup, FileOf(text), io)
        st1 == [st EXCEPT !.file = w.file, !.backup = w.backup, !.saves = @ + 1]
    IN IF w.threw
       THEN [st1 EXCEPT !.saved = <<>>, !.given = NoValue,
                        !.last = Outcome("save", st, TRUE, NoValue)]
       ELSE LET u == UploadAfterSave(st, text, upload_fails)
                st2 == [st1 EXCEPT !.s3 = u.s3, !.clock = u.clock]
                value == [none |-> FALSE, upload_failed |-> u.failed]
            IN IF u.raised
               THEN [st2 EXCEPT !.saved = <<>>, !.given = NoValue,
                                !.last = Outcome("save", st, TRUE, value)]
               ELSE [st2 EXCEPT !.saved = Append(@, text),
                                !.given = [none |-> FALSE, R |-> R, M |-> M],
                                !.last = Outcome("save", st, FALSE, value)]

\* save_state: validate, serialize, _save_to_file, then the upload whose
\* failure is only logged.  Every exception leaves as StateError.
save_state(st, R, M, io, upload_fails) ==
    LET metadata == IF M.t = "none" THEN EmptyDict ELSE M.d
        text == Dumps(R, metadata)
        w == SaveToFile(st.file, st.backup, FileOf(text), io)
        st1 == [st EXCEPT !.file = w.file, !.backup = w.backup, !.saves = @ + 1]
    IN IF \E k \in DOMAIN R : R[k].t # "list"
       THEN [st EXCEPT !.saves = @ + 1, !.last = Outcome("save_invalid", st, TRUE, NoValue)]
       ELSE IF w.threw
       THEN [st1 EXCEPT !.saved = <<>>, !.given = NoValue,
                        !.last = Outcome("save", st, TRUE, NoValue)]
       ELSE LET u == UploadAfterSave(st, text, upload_fails)
                st2 == [st1 EXCEPT !.s3 = u.s3, !.clock = u.clock]
                value == [none |-> FALSE, upload_failed |-> u.failed]
            IN IF u.raised
               THEN [st2 EXCEPT !.saved = <<>>, !.given = NoValue,
                                !.last = Outcome("save", st, TRUE, value)]
               ELSE [st2 EXCEPT !.saved = Append(@, text),
                                !.given = [none |-> FALSE, R |-> R, M |-> M],
                                !.last = Outcome("save", st, FALSE, value)]

\* load_state: the parsed document, or StateError.
load_state(st) ==
    IF ~st.file.present \/ ~st.file.text.json \/ ~ValidState(st.file.text) \/ ~FromDictOk(st.file.text)
    THEN [st EXCEPT !.last = Outcome("load", st, TRUE, NoValue)]
    ELSE [st EXCEPT !.last = Outcome("load", st, FALSE,
                                     [none |-> FALSE, resources |-> st.file.text.resources,
                                      metadata |-> st.file.text.metadata])]

\* Faults of restore_from_s3: the listing, the download, the local file.
\* "truncated" is a bucket holding more keys than one answer of
\* list_objects_v2 carries.
RestoreFaults == {"none", "truncated", "list", "get", "rename", "write"}

\* The timestamp argument left out.
NoTimestamp == 0

\* The one answer of list_objects_v2 that list_backups reads: the keys in
\* key order, cut at the size of a page.  A bucket larger than a page is
\* modelled by a page that is one key short.
FirstPage(objects) == {o \in objects : \E q \in objects : q.key > o.key}

\* _find_latest_backup: the head of list_backups, which sorts the listed
\* objects by last_modified, most recent first; S3 lists in key order and the
\* sort is stable.
LatestBackups(objects) ==
    LET newest == {o \in objects : \A q \in objects : q.mtime <= o.mtime}
    IN {o \in newest : \A q \in newest : o.key <= q.key}

\* restore_from_s3: choose the key, download, json.loads, _validate_state,
\* _save_to_file, from_dict.  Every exception leaves as StateError.
restore_from_s3(st, timestamp, fault) ==
    LET listed == CASE fault = "list" -> {}
                    [] fault = "truncated" -> FirstPage(st.s3)
                    [] OTHER -> st.s3
        chosen == IF timestamp # NoTimestamp
                  THEN {o \in st.s3 : o.key = timestamp}
                  ELSE LatestBackups(listed)
        answer(key) == [none |-> FALSE, timestamp |-> timestamp, fault |-> fault, key |-> key]
        fail == [st EXCEPT !.last = Outcome("restore", st, TRUE, answer(NoTimestamp))]
    IN IF chosen = {} \/ fault = "get" THEN fail
       ELSE LET o == CHOOSE x \in chosen : TRUE
                io == IF fault \in {"rename", "write"} THEN fault ELSE "none"
                w == SaveToFile(st.file, st.backup, FileOf(o.text), io)
            IN IF ~o.text.json \/ ~ValidState(o.text) THEN fail
               ELSE [st EXCEPT !.file = w.file, !.backup = w.backup,
                               !.saved = <<>>, !.given = NoValue,
                               !.last = Outcome("restore", st, w.threw \/ ~FromDictOk(o.text),
                                                answer(o.key))]

\* A behaviour is a run of saves looked at by one load or one restore.
Saving == store.active /\ store.last.op \in {"none", "save", "save_invalid"}

StoreSave(R, M, io, upload_fails) ==
    /\ Saving /\ store.saves < MaxSaves
    /\ upload_fails => store.s3_configured
    /\ io = "rename" => store.file.present
    /\ store' = save_state(store, R, M, io, upload_fails)
    /\ UNCHANGED <<lifecycleVars, audit, sim, rw, savers>>

StoreLoad ==
    /\ Saving
    /\ store' = load_state(store)
    /\ UNCHANGED <<lifecycleVars, audit, sim, rw, savers>>

StoreRestore(timestamp, fault) ==
    /\ Saving /\ store.s3_configured
    /\ fault = "truncated" => timestamp = NoTimestamp
    /\ fault = "rename" => store.file.present
    /\ store' = restore_from_s3(store, timestamp, fault)
    /\ UNCHANGED <<lifecycleVars, audit, sim, rw, savers>>

\* Documents found at the start: on the local file, and in the bucket.
EarlierText == Dumps([k \in {"kinesis_streams"} |-> ListOf(<<PlainDict>>)], EmptyDict)
OtherText == Dumps([k \in {"lambda_functions"} |-> ListOf(<<>>)], PlainDict)
NoTimestampText == [EarlierText EXCEPT !.fields = @ \ {"timestamp"}]
ScalarKindText == [EarlierText EXCEPT !.resources = [k \in {"kinesis_streams"} |-> NotAList]]
ExtraFieldText == [OtherText EXCEPT !.fields = @ \cup {"note"}]

\* Backups found in the bucket; the timestamp of a key and the modification
\* time of its object need not agree (an object can be put again).
BucketsAtStart ==
    {{},
     {[key |-> 1, mtime |-> 2, text |-> EarlierText], [key |-> 2, mtime |-> 1, text |-> OtherText]},
     {[key |-> 1, mtime |-> 1, text |-> EarlierText], [key |-> 2, mtime |-> 2, text |-> NoTimestampText]},
     {[key |-> 1, mtime |-> 2, text |-> NotJson], [key |-> 2, mtime |-> 1, text |-> OtherText]},
     {[key |-> 1, mtime |-> 1, text |-> OtherText], [key |-> 2, mtime |-> 2, text |-> ScalarKindText]},
     {[key |-> 1, mtime |-> 1, text |-> EarlierText], [key |-> 2, mtime |-> 2, text |-> ExtraFieldText]}}

\* Timestamps of the backups found at the start; later uploads take later ones.
StartKeys == {1, 2}
FirstFreeTime == Cardinality(StartKeys) + 1

InitStore ==
    /\ NoLifecycle /\ rw = NoRetry /\ savers = NoSavers /\ sim = NoSim /\ audit = NoAudit
    /\ \E configured \in BOOLEAN, bucket \in BucketsAtStart, file \in {NoFile, FileOf(EarlierText)} :
          /\ ~configured => bucket = {}
          /\ store = [active |-> TRUE, s3_configured |-> configured,
                      file |-> file, backup |-> NoFile, s3 |-> bucket,
                      clock |-> FirstFreeTime, saves |-> 0, saved |-> <<>>, given |-> NoValue,
                      last |-> [op |-> "none"]]

NextStore ==
    \/ \E R \in ResourceMaps, M \in Metadatas, io \in IOFaults, upload_fails \in BOOLEAN :
          StoreSave(R, M, io, upload_fails)
    \/ StoreLoad
    \/ \E timestamp \in {NoTimestamp} \cup StartKeys, fault \in RestoreFaults : StoreRestore(timestamp, fault)

SpecStore == InitStore /\ [][NextStore]_vars

\* A load that follows a successful save with no write in between.
LoadAfterSave == store.active /\ store.last.op = "load" /\ ~store.given.none

\* A value json can hold as it is: a map with string keys, no tuple.
JsonNative(d) == \A i \in DOMAIN d : d[i].k.t = "str" /\ d[i].val # PyTuple
JsonNativeMap(R) == \A k \in DOMAIN R : \A i \in DOMAIN R[k].items : JsonNative(R[k].items[i])

C16_FileAndBackup ==
    (store.active /\ Len(store.saved) >= 2) =>
        /\ store.file = FileOf(store.saved[Len(store.saved)])
        /\ store.backup = FileOf(store.saved[Len(store.saved) - 1])

C16_Witness ==
    /\ store.active /\ Len(store.saved) = MaxSaves
    /\ store.saved[MaxSaves] # store.saved[MaxSaves - 1]

\* C17: save_state given a resource map with a kind that is no list raises
\* and leaves the local file, the .backup file and the bucket as they were.
C17_RejectsNonList ==
    (store.active /\ store.last.op = "save_invalid") =>
        /\ store.last.threw
        /\ store.file = store.last.pre_file
        /\ store.backup = store.last.pre_backup
        /\ store.s3 = store.last.pre_s3

\* Every successful or file-touching save was given lists only.
C17_OnlyListsSaved ==
    (store.active /\ store.last.op = "save") =>
        (store.last.threw \/ \A k \in DOMAIN store.given.R : store.given.R[k].t = "list")

\* C17, both halves: what is rejected changes nothing, and what is not
\* rejected had lists only.
C17_NonListRejected == C17_RejectsNonList /\ C17_OnlyListsSaved

C17_Witness ==
    /\ store.active /\ store.last.op = "save_invalid"
    /\ store.last.pre_file.present /\ store.s3_configured

\* C18: when the upload fails, save_state still returns True, nothing is
\* raised, and the local file holds the new document.
C18_UploadFailureNotRaised ==
    (/\ store.active /\ store.last.op = "save"
     /\ ~store.last.value.none /\ store.last.value.upload_failed) =>
        /\ ~store.last.threw
        /\ store.saved # <<>>
        /\ store.file = FileOf(store.saved[Len(store.saved)])
        /\ store.s3 = store.last.pre_s3

\* A save with a failing upload ends as one with a working upload does.
C18_Witness ==
    /\ store.active /\ store.last.op = "save" /\ ~store.last.threw
    /\ store.last.value.upload_failed /\ store.last.pre_file.present

RestoredLatest ==
    /\ store.active /\ store.last.op = "restore"
    /\ store.last.value.timestamp = NoTimestamp
    /\ store.last.value.fault \in {"none", "truncated"}
    /\ store.last.pre_s3 # {}

Newest(objects) == CHOOSE o \in objects : \A q \in objects : q.mtime <= o.mtime

\* C19: restore_from_s3 without a timestamp takes the backup modified last
\* among all the stored ones, validates it as load_state does, then writes it
\* over the local file; a backup that fails validation leaves the local file
\* as it was.
C19_RestoreLatest ==
    RestoredLatest =>
        LET o == Newest(store.last.pre_s3)
            valid == o.text.json /\ ValidState(o.text)
        IN /\ valid => store.file = FileOf(o.text) /\ store.last.value.key = o.key
           /\ ~valid => /\ store.last.threw
                        /\ store.file = store.last.pre_file
                        /\ store.backup = store.last.pre_backup

\* The same with every stored backup listed: the bucket fits one page.
C19_RestoreLatestOfOnePage ==
    (RestoredLatest /\ store.last.value.fault = "none") => C19_RestoreLatest

----------------------------------------------------------------------------
(* state_manager.py: two save_state calls at once on one path.  Nothing in
   StateManager serialises them, so the steps of the two _save_to_file calls
   interleave: exists(), rename(), open(..., 'w'), write and close. *)

Savers == {1, 2}

\* The documents the two calls serialise: a short or a long text each.
DocsOf(i) == IF i = 1 THEN {<<"a">>, <<"a", "a">>} ELSE {<<"b">>, <<"b", "b">>}
OldDoc == <<"o">>

\* A path names at most one file; a file keeps its content when renamed.
NoPath == {}

\* write at offset 0 of a file opened with 'w': the text replaces the head of
\* what the file holds by then.
WriteAtStart(content, doc) ==
    IF Len(doc) >= Len(content) THEN doc
    ELSE doc \o SubSeq(content, Len(doc) + 1, Len(content))

\* if self.state_file.exists():
RaceExists(i) ==
    /\ savers.active /\ savers.pc[i] = "exists"
    /\ savers' = [savers EXCEPT !.pc[i] = IF savers.file # NoPath THEN "rename" ELSE "open"]
    /\ UNCHANGED <<lifecycleVars, audit, sim, rw, store>>

\* self.state_file.rename(backup_file): FileNotFoundError when the file is
\* gone by now, which save_state raises as StateError.
RaceRename(i) ==
    /\ savers.active /\ savers.pc[i] = "rename"
    /\ savers' = IF savers.file = NoPath
                 THEN [savers EXCEPT !.pc[i] = "failed"]
                 ELSE [savers EXCEPT !.backup = savers.file, !.file = NoPath, !.pc[i] = "open"]
    /\ UNCHANGED <<lifecycleVars, audit, sim, rw, store>>

\* open(self.state_file, 'w'): a new empty file, or the file there emptied.
RaceOpen(i) ==
    /\ savers.active /\ savers.pc[i] = "open"
    /\ savers' = IF savers.file = NoPath
                 THEN [savers EXCEPT !.content = Append(@, <<>>),
                                     !.file = {Len(savers.content) + 1},
                                     !.fd[i] = Len(savers.content) + 1,
                                     !.pc[i] = "write"]
                 ELSE LET n == CHOOSE m \in savers.file : TRUE IN
                      [savers EXCEPT !.content[n] = <<>>, !.fd[i] = n, !.pc[i] = "write"]
    /\ UNCHANGED <<lifecycleVars, audit, sim, rw, store>>

\* f.write(state_json) and the close that flushes it; save_state returns True.
RaceWrite(i) ==
    /\ savers.active /\ savers.pc[i] = "write"
    /\ savers' = [savers EXCEPT !.content[savers.fd[i]] = WriteAtStart(@, savers.doc[i]),
                                !.wrote = Append(@, i),
                                !.pc[i] = "done"]
    /\ UNCHANGED <<lifecycleVars, audit, sim, rw, store>>

InitRace ==
    /\ NoLifecycle /\ rw = NoRetry /\ store = NoStore /\ sim = NoSim /\ audit = NoAudit
    /\ \E found \in BOOLEAN, d1 \in DocsOf(1), d2 \in DocsOf(2) :
          savers = [active |-> TRUE,
                    content |-> IF found THEN <<OldDoc>> ELSE <<>>,
                    file |-> IF found THEN {1} ELSE NoPath,
                    backup |-> NoPath,
                    pc |-> [i \in Savers |-> "exists"],
                    fd |-> [i \in Savers |-> 0],
                    doc |-> [i \in Savers |-> IF i = 1 THEN d1 ELSE d2],
                    wrote |-> <<>>]

NextRace ==
    \E i \in Savers : RaceExists(i) \/ RaceRename(i) \/ RaceOpen(i) \/ RaceWrite(i)

SpecRace == InitRace /\ [][NextRace]_vars

BothFinished == savers.active /\ \A i \in Savers : savers.pc[i] \in {"done", "failed"}

\* What the state file holds: nothing when the path names no file.
FileContent == IF savers.file = NoPath THEN <<>> ELSE savers.content[CHOOSE n \in savers.file : TRUE]

\* C20: two save calls at once on one path end last-writer-wins under every
\* interleaving: neither fails because of the other, and when both have
\* finished the file holds in full the document of the one that wrote last.
C20_LastWriterWins ==
    BothFinished =>
        /\ \A i \in Savers : savers.pc[i] = "done"
        /\ savers.file # NoPath
        /\ FileContent = savers.doc[savers.wrote[Len(savers.wrote)]]

----------------------------------------------------------------------------
(* state_manager.py: a reader at the same time as one save_state on a path
   that holds a snapshot (SpecRead).  The reader is state_exists, load_state,
   or step 1 of start_all_resources, which calls the one and then the other. *)

ReaderOps == {"state_exists", "load_state", "start_all_resources"}

NewReader(op) ==
    [op |-> op, pc |-> IF op = "load_state" THEN "load_exists" ELSE "state_exists",
     exists |-> "unknown", fd |-> 0, outcome |-> "none", text |-> <<>>, fallback |-> FALSE]

\* state_exists(): self.state_file.exists(). start_all_resources goes on to
\* load_state when it is there and otherwise warns "No saved state found,
\* using default configurations".
ReadStateExists ==
    /\ savers.active /\ savers.reader.pc = "state_exists"
    /\ LET found == savers.file # NoPath
       IN savers' = [savers EXCEPT
             !.reader.exists = IF found THEN "yes" ELSE "no",
             !.reader.fallback = ~found /\ savers.reader.op = "start_all_resources",
             !.reader.pc = IF found /\ savers.reader.op = "start_all_resources"
                           THEN "load_exists" ELSE "done"]
    /\ UNCHANGED <<lifecycleVars, audit, sim, rw, store>>

\* load_state: if not self.state_file.exists(): raise StateError.
ReadLoadExists ==
    /\ savers.active /\ savers.reader.pc = "load_exists"
    /\ savers' = IF savers.file # NoPath
                 THEN [savers EXCEPT !.reader.pc = "open"]
                 ELSE [savers EXCEPT !.reader.pc = "done", !.reader.outcome = "StateError"]
    /\ UNCHANGED <<lifecycleVars, audit, sim, rw, store>>

\* open(self.state_file, 'r'): FileNotFoundError, raised as StateError, when
\* the path names no file by now.
ReadOpen ==
    /\ savers.active /\ savers.reader.pc = "open"
    /\ savers' = IF savers.file # NoPath
                 THEN [savers EXCEPT !.reader.pc = "read",
                                     !.reader.fd = CHOOSE n \in savers.file : TRUE]
                 ELSE [savers EXCEPT !.reader.pc = "done", !.reader.outcome = "StateError"]
    /\ UNCHANGED <<lifecycleVars, audit, sim, rw, store>>

\* The texts json.load and _validate_state accept: a whole document.
WholeDocs == {OldDoc} \cup DocsOf(1) \cup DocsOf(2)

\* json.load(f), _validate_state, from_dict on what the file opened holds.
ReadLoad ==
    /\ savers.active /\ savers.reader.pc = "read"
    /\ LET text == savers.content[savers.reader.fd]
       IN savers' = [savers EXCEPT
             !.reader.pc = "done",
             !.reader.text = text,
             !.reader.outcome = IF text \in WholeDocs THEN "returned" ELSE "StateError"]
    /\ UNCHANGED <<lifecycleVars, audit, sim, rw, store>>

InitRead ==
    /\ NoLifecycle /\ rw = NoRetry /\ store = NoStore /\ sim = NoSim /\ audit = NoAudit
    /\ \E d1 \in DocsOf(1), op \in ReaderOps :
          savers = [active |-> TRUE,
                    content |-> <<OldDoc>>, file |-> {1}, backup |-> NoPath,
                    pc |-> [i \in Savers |-> IF i = 1 THEN "exists" ELSE "idle"],
                    fd |-> [i \in Savers |-> 0],
                    doc |-> [i \in Savers |-> IF i = 1 THEN d1 ELSE <<>>],
                    wrote |-> <<>>,
                    reader |-> NewReader(op)]

NextRead ==
    \/ RaceExists(1) \/ RaceRename(1) \/ RaceOpen(1) \/ RaceWrite(1)
    \/ ReadStateExists
    \/ ReadLoadExists
    \/ ReadOpen
    \/ ReadLoad

SpecRead == InitRead /\ [][NextRead]_vars

ReaderDone == savers.active /\ savers.pc[2] = "idle" /\ savers.reader.pc = "done"

\* C39: a load or a snapshot-exists check at the same time as a save on a path
\* that holds a snapshot finds a complete snapshot, the previous document or
\* the new one: never none, never a part of one, and start_all_resources
\* never falls back to "no saved state".
C39_ReaderFindsSnapshot ==
    ReaderDone =>
        /\ savers.reader.exists # "no"
        /\ ~savers.reader.fallback
        /\ savers.reader.op # "state_exists" =>
              /\ savers.reader.outcome = "returned"
              /\ savers.reader.text \in {OldDoc, savers.doc[1]}

----------------------------------------------------------------------------
(* Properties of the managers (SpecMgr), continued *)

Restored == lastCall.present /\ lastCall.op = "restore"

\* C21: restore_configuration given a record that lacks a required field, or
\* an entry that lacks its name, raises ValidationError and has issued no
\* mutating cloud call.
C21_ValidatesBeforeMutation ==
    (Restored /\ lastCall.argument.lacks # "nothing") =>
        /\ lastCall.threw /\ lastCall.exc = "ValidationError"
        /\ lastCall.mutations = <<>>

\* C22: restore_configuration given a record whose targets are what the
\* cloud holds now returns True and issues no mutating cloud call, for each
\* kind (the reads of the current configuration answering).
C22_RestoreAtTargetIsNoOp ==
    (Restored /\ lastCall.argument.at_target /\ lastCall.clean) =>
        /\ ~lastCall.threw /\ lastCall.result = RestoreTrue
        /\ lastCall.mutations = <<>>

C22_Witness ==
    /\ Restored /\ lastCall.argument.at_target /\ lastCall.clean
    /\ lastCall.kind = "kinesis" /\ lastCall.pre.stream.shards > MINIMAL_SHARD_COUNT
    /\ ~lastCall.threw

StoppedOrStarted == lastCall.present /\ lastCall.op \in {"stop", "start"}

\* C23: a result returned by a manager's stop or start has success false
\* only if its errors list is not empty.
C23_FailedOnlyWithErrors ==
    (StoppedOrStarted /\ ~lastCall.threw /\ ~lastCall.result.success) =>
        lastCall.result.errors # <<>>

\* A resource the manager of the kind manages is not in the cloud: the
\* stream, one of the functions named, or every alarm.
ResourceMissing(kind, c) ==
    CASE kind = "kinesis" -> ~c.stream.exists
      [] kind = "lambda" -> \E i \in DOMAIN function_names : c.functions[function_names[i]] = Absent
      [] kind = "cloudwatch" -> \A a \in Alarms : c.alarms[a] = "absent"

\* C24: a stop that meets a missing resource, and no failing cloud call,
\* reports it as a warning: it does not raise, the result is a success and
\* holds no error.
C24_AbsentIsWarning ==
    (/\ lastCall.present /\ lastCall.op = "stop" /\ lastCall.clean
     /\ ResourceMissing(lastCall.kind, lastCall.pre)) =>
        /\ ~lastCall.threw
        /\ lastCall.result.success
        /\ lastCall.result.errors = <<>>
        /\ lastCall.result.warnings # <<>>

\* The entries of a list of messages that are about the resource id.
About(msgs, id) == {i \in 1..Len(msgs) : msgs[i].id = id}

\* The last call was a stop or a start, for real, of a manager of several
\* resources, and it issued a mutating call.
ChangedSeveral ==
    /\ lastCall.present /\ lastCall.kind \in {"lambda", "cloudwatch"}
    /\ lastCall.op \in {"stop", "start"} /\ ~lastCall.is_dry
    /\ lastCall.mutations # <<>>

\* Every function of function_names was processed: it is in resources_affected,
\* or has an error, or is reported missing; one whose concurrency changed is
\* in resources_affected, one with an error was left as it was, one in
\* resources_affected and left as it was has a warning saying why.
EveryFunctionProcessed ==
    \A i \in 1..Len(function_names) :
        LET f == function_names[i]
            r == lastCall.result
            affected == FnId(f) \in Range(r.resources_affected)
            failed == About(r.errors, FnId(f)) # {}
            missing == \E j \in About(r.warnings, FnId(f)) : r.warnings[j].tag = "not_found"
        IN /\ affected \/ failed \/ missing
           /\ ~(affected /\ failed)
           /\ cloud.functions[f] # lastCall.pre.functions[f] => affected
           /\ failed => cloud.functions[f] = lastCall.pre.functions[f]
           /\ (affected /\ cloud.functions[f] = lastCall.pre.functions[f]) =>
                  About(r.warnings, FnId(f)) # {}

\* Every alarm whose actions were switched is in resources_affected.
EveryAlarmProcessed ==
    \A a \in Alarms :
        cloud.alarms[a] # lastCall.pre.alarms[a] =>
            AlarmId(a) \in Range(lastCall.result.resources_affected)

\* C36: within one stop or start of a manager over several resources a failure
\* on one resource is recorded in errors and every remaining resource is still
\* processed: the call returns a result, each resource is accounted for in
\* it, and the resources changed are in resources_affected.
C36_FailureDoesNotAbortSiblings ==
    ChangedSeveral =>
        /\ ~lastCall.threw
        /\ lastCall.kind = "lambda" => EveryFunctionProcessed
        /\ lastCall.kind = "cloudwatch" => EveryAlarmProcessed

\* C40: restore_configuration of a manager, and so the restore of the
\* controller that calls it, reports success only if on return every resource
\* the record lists is at its saved configuration; a listed resource that is
\* missing, or whose restore call failed, makes it return false or raise.
C40_SuccessMeansRestored ==
    (Restored /\ lastCall.argument.listed_once
     /\ ~lastCall.threw /\ lastCall.result = RestoreTrue) =>
        lastCall.argument.reached

----------------------------------------------------------------------------
(* get_status of the managers and get_resource_status of the controller.
   Money is counted in units of 1/7200 USD, in which the prices below and
   the hourly price of an alarm are whole numbers. *)

SHARD_HOUR_COST == 108
STANDARD_ALARM_MONTHLY_COST == 720

\* Faults of a status query: those of get_status itself, and the listing or
\* description that estimate_cost makes again.
StatusFaults == [lambda : SUBSET Fns, kinesis : BOOLEAN, cloudwatch : BOOLEAN,
                 kinesis_cost : BOOLEAN, cloudwatch_cost : BOOLEAN]
NoStatusFault == [lambda |-> {}, kinesis |-> FALSE, cloudwatch |-> FALSE,
                  kinesis_cost |-> FALSE, cloudwatch_cost |-> FALSE]

\* estimate_cost: 0.0 when its own read fails.
EstimateCost(kind, c, fault) ==
    CASE kind = "lambda" -> 0
      [] kind = "kinesis" ->
            IF fault.kinesis_cost \/ ~c.stream.exists THEN 0 ELSE c.stream.shards * SHARD_HOUR_COST
      [] kind = "cloudwatch" ->
            IF fault.cloudwatch_cost THEN 0
            ELSE ((Len(ListProjectAlarms(c)) * STANDARD_ALARM_MONTHLY_COST) \div 30) \div 24

\* The 'status' of each entry of ServiceStatus.resources.
ResourceStatuses(kind, c, names, fault) ==
    CASE kind = "lambda" ->
            [i \in DOMAIN names |->
                LET cfg == GetFunctionConfig(c, names[i], ReadOnly(fault.lambda)) IN
                IF cfg.kind = "raise" THEN "ERROR"
                ELSE IF cfg.kind = "none" THEN "NOT_FOUND"
                ELSE IF cfg.reserved_concurrent_executions = 0 THEN "STOPPED" ELSE "RUNNING"]
      [] kind = "kinesis" -> <<c.stream.status>>
      [] kind = "cloudwatch" ->
            LET alarms == ListProjectAlarms(c) IN
            [i \in DOMAIN alarms |-> IF c.alarms[alarms[i]] = "enabled" THEN "ENABLED" ELSE "DISABLED"]

\* get_status of the manager of a kind: the ServiceStatus, or an exception.
ManagerGetStatus(kind, c, names, fault) ==
    LET st == CASE kind = "lambda" -> LambdaGetStatus(c, names, ReadOnly(fault.lambda))
                [] kind = "kinesis" -> KinesisGetStatus(c, ReadFault(fault.kinesis))
                [] kind = "cloudwatch" -> CloudWatchGetStatus(c, ReadFault(fault.cloudwatch))
    IN IF st.threw THEN [threw |-> TRUE, exc |-> "AWSServiceError"]
       ELSE [threw |-> FALSE, exc |-> "none", status |-> st.status,
             total_resources |-> st.total_resources,
             running_resources |-> st.running_resources,
             stopped_resources |-> st.stopped_resources,
             estimated_hourly_cost |-> EstimateCost(kind, c, fault),
             resources |-> ResourceStatuses(kind, c, names, fault)]

\* The managers in the order get_resource_status queries them.
StatusOrder == <<"lambda", "kinesis", "cloudwatch">>

EmptyReport ==
    [service_status |-> <<>>, total_resources |-> 0, running_resources |-> 0,
     stopped_resources |-> 0, total_hourly_cost |-> 0]

\* One try block of get_resource_status: the entry of the kind and the sums.
AddStatus(acc, kind, st) ==
    IF st.threw
    THEN [acc EXCEPT !.service_status = Append(@, [kind |-> kind, error |-> TRUE])]
    ELSE [acc EXCEPT !.service_status = Append(@, [kind |-> kind, error |-> FALSE]),
                     !.total_resources = @ + st.total_resources,
                     !.running_resources = @ + st.running_resources,
                     !.stopped_resources = @ + st.stopped_resources,
                     !.total_hourly_cost = @ + st.estimated_hourly_cost]

RECURSIVE QueryFrom(_, _, _, _, _)
QueryFrom(acc, i, c, names, fault) ==
    IF i > Len(StatusOrder) THEN acc
    ELSE QueryFrom(AddStatus(acc, StatusOrder[i], ManagerGetStatus(StatusOrder[i], c, names, fault)),
                   i + 1, c, names, fault)

ReportOf(acc) ==
    LET daily_cost == acc.total_hourly_cost * 24
        monthly_cost == daily_cost * 30
    IN [threw |-> FALSE,
        overall_status |-> IF acc.stopped_resources = acc.total_resources /\ acc.total_resources > 0
                           THEN "stopped"
                           ELSE IF acc.running_resources > 0 THEN "running" ELSE "unknown",
        total_resources |-> acc.total_resources,
        running_resources |-> acc.running_resources,
        stopped_resources |-> acc.stopped_resources,
        estimated_hourly_cost |-> acc.total_hourly_cost,
        estimated_daily_cost |-> daily_cost,
        estimated_monthly_cost |-> monthly_cost,
        service_status |-> acc.service_status]

\* get_resource_status with the three queries in one try block.
get_resource_status_OneTry(c, names, fault) ==
    IF \E i \in DOMAIN StatusOrder : ManagerGetStatus(StatusOrder[i], c, names, fault).threw
    THEN [threw |-> TRUE]
    ELSE ReportOf(QueryFrom(EmptyReport, 1, c, names, fault))

\* get_resource_status: each manager queried in a try block of its own.
get_resource_status(c, names, fault) ==
    ReportOf(QueryFrom(EmptyReport, 1, c, names, fault))

\* A status query of one manager.
MgrStatus(kind, fault) ==
    /\ Ready
    /\ lastCall' = [present |-> TRUE, kind |-> kind, op |-> "get_status", pre |-> cloud,
                    clean |-> fault = NoStatusFault,
                    out |-> ManagerGetStatus(kind, cloud, function_names, fault)]
    /\ prevStop' = "none"
    /\ UNCHANGED <<cloud, function_names, dry_run, audit, rw, store, savers, sim, state_file, backup_file, ctl>>

\* A status query of the controller.
CtlStatus(fault) ==
    /\ Ready
    /\ lastCall' = [present |-> TRUE, kind |-> "controller", op |-> "get_resource_status",
                    pre |-> cloud, fault |-> fault,
                    out |-> get_resource_status(cloud, function_names, fault)]
    /\ prevStop' = "none"
    /\ UNCHANGED <<cloud, function_names, dry_run, audit, rw, store, savers, sim, state_file, backup_file, ctl>>

\* A fault raises only where get_status or estimate_cost makes the call.
StatusFaultsOf(kind) ==
    {fault \in StatusFaults :
        /\ kind # "lambda" => fault.lambda = {}
        /\ kind # "kinesis" => ~fault.kinesis /\ ~fault.kinesis_cost
        /\ kind # "cloudwatch" => ~fault.cloudwatch /\ ~fault.cloudwatch_cost}

InitStatus ==
    /\ CloudInit({0})
    /\ state_file = NoFile /\ backup_file = NoFile
    /\ ctl = Idle
    /\ lastCall = NoCall /\ prevStop = "none"
    /\ rw = NoRetry /\ store = NoStore /\ savers = NoSavers /\ sim = NoSim /\ audit = NoAudit

NextStatus ==
    \/ \E kind \in Kinds : \E fault \in StatusFaultsOf(kind) : MgrStatus(kind, fault)
    \/ \E fault \in {sf \in StatusFaults : sf.lambda \in {{}, Fns}} : CtlStatus(fault)
    \/ \E f \in Fns : DeleteFunction(f)

SpecStatus == InitStatus /\ [][NextStatus]_vars

StatusAsked == lastCall.present /\ lastCall.op = "get_status"

\* C25: get_status of a manager whose resource is missing does not raise
\* and reports the resource as unknown: the stream's and the alarms'
\* snapshot has status unknown, a missing function is listed as not found
\* and counted neither running nor stopped.
C25_StatusToleratesMissing ==
    (StatusAsked /\ lastCall.clean /\ ResourceMissing(lastCall.kind, lastCall.pre)) =>
        /\ ~lastCall.out.threw
        /\ lastCall.kind \in {"kinesis", "cloudwatch"} => lastCall.out.status = "unknown"
        /\ lastCall.kind = "lambda" =>
               \A i \in DOMAIN function_names :
                   lastCall.pre.functions[function_names[i]] = Absent
                       => lastCall.out.resources[i] = "NOT_FOUND"

Reported == lastCall.present /\ lastCall.op = "get_resource_status"

\* The kinds whose manager answered the query of lastCall.
Answered == {k \in Kinds : ~ManagerGetStatus(k, lastCall.pre, function_names, lastCall.fault).threw}

RECURSIVE SumOver(_, _)
SumOver(S, field) ==
    IF S = {} THEN 0
    ELSE LET k == CHOOSE x \in S : TRUE
         IN ManagerGetStatus(k, lastCall.pre, function_names, lastCall.fault)[field]
              + SumOver(S \ {k}, field)

\* C26: get_resource_status does not raise whichever managers raise; it has
\* an entry for each of the three kinds, an error entry exactly for those
\* that raised; the counts and the hourly cost are the sums over the kinds
\* that answered; daily = hourly x 24 and monthly = daily x 30.
C26_StatusReport ==
    Reported =>
        LET r == lastCall.out IN
        /\ ~r.threw
        /\ {r.service_status[i].kind : i \in DOMAIN r.service_status} = Kinds
        /\ \A i \in DOMAIN r.service_status :
               r.service_status[i].error <=> r.service_status[i].kind \notin Answered
        /\ r.total_resources = SumOver(Answered, "total_resources")
        /\ r.running_resources = SumOver(Answered, "running_resources")
        /\ r.stopped_resources = SumOver(Answered, "stopped_resources")
        /\ r.estimated_hourly_cost = SumOver(Answered, "estimated_hourly_cost")
        /\ r.estimated_daily_cost = r.estimated_hourly_cost * 24
        /\ r.estimated_monthly_cost = r.estimated_daily_cost * 30

\* One manager raises and the two others answer with resources and a cost.
C26_Witness ==
    /\ Reported /\ ~lastCall.out.threw
    /\ Answered = {"lambda", "cloudwatch"}
    /\ lastCall.pre.stream.exists
    /\ lastCall.out.total_resources > 1
    /\ lastCall.out.estimated_monthly_cost > 0

----------------------------------------------------------------------------
(* Properties of the controller (Spec), continued *)

\* C27: stop_all_resources and start_all_resources end with a result, never
\* an exception, whatever the managers and the state file do: the result
\* names the operation and service_results has an entry for each of the
\* three managers.
C27_AlwaysAResult ==
    ctl.pc = "done" =>
        /\ ctl.op \in {"stop", "start"}
        /\ Len(ctl.service_results) = Cardinality(Kinds)
        /\ {ctl.service_results[i].kind : i \in DOMAIN ctl.service_results} = Kinds

\* A stop in which the save fails, the two managers that can raise do, and
\* the third returns a failure.
C27_Witness ==
    /\ Done("stop")
    /\ {ctl.service_results[i].kind : i \in Threw(ctl)} = {"kinesis", "cloudwatch"}
    /\ \A i \in DOMAIN ctl.service_results : ~ctl.service_results[i].success
    /\ \E i \in DOMAIN ctl.steps : ctl.steps[i].step = "save_state" /\ ctl.steps[i].threw

----------------------------------------------------------------------------
(* The cost calculator (cost_calculator.py) *)

\* Money is counted in units of 1/7200 USD: every price below, and every
\* hourly, daily and monthly figure derived from it, is a whole number.
KinesisPricing_SHARD_HOUR == 108
CloudWatchPricing_ALARM == 720
ML_M5_LARGE_HOUR == 828
ML_M5_XLARGE_HOUR == 1656
ML_T3_MEDIUM_HOUR == 360

HoursPerDay == 24
DaysPerMonth == 30

ServiceCost(name, count, hourly, daily, monthly) ==
    [service_name |-> name, resource_count |-> count,
     hourly_cost |-> hourly, daily_cost |-> daily, monthly_cost |-> monthly]

\* calculate_kinesis_cost with the default retention, records and consumers.
calculate_kinesis_cost(shard_count) ==
    LET hourly_cost == shard_count * KinesisPricing_SHARD_HOUR
        daily_cost == hourly_cost * HoursPerDay
    IN ServiceCost("Kinesis Data Streams", shard_count,
                   hourly_cost, daily_cost, daily_cost * DaysPerMonth)

\* calculate_lambda_cost with the default of no invocations: nothing is
\* billable, whatever the number of functions.
calculate_lambda_cost(function_count) ==
    ServiceCost("Lambda", function_count, 0, 0, 0)

\* calculate_cloudwatch_cost with no logs and no custom metrics.
calculate_cloudwatch_cost(alarm_count, alarms_enabled) ==
    LET monthly_cost == IF alarms_enabled THEN alarm_count * CloudWatchPricing_ALARM ELSE 0
        daily_cost == monthly_cost \div DaysPerMonth
    IN ServiceCost("CloudWatch", alarm_count,
                   daily_cost \div HoursPerDay, daily_cost, monthly_cost)

InstanceHourlyCost(instance_type) ==
    CASE instance_type = "ml.m5.xlarge" -> ML_M5_XLARGE_HOUR
      [] instance_type = "ml.t3.medium" -> ML_T3_MEDIUM_HOUR
      [] OTHER -> ML_M5_LARGE_HOUR

calculate_sagemaker_cost(endpoint_count, instance_type, instance_count_per_endpoint) ==
    LET hourly_cost == endpoint_count * instance_count_per_endpoint
                           * InstanceHourlyCost(instance_type)
        daily_cost == hourly_cost * HoursPerDay
    IN ServiceCost("SageMaker", endpoint_count,
                   hourly_cost, daily_cost, daily_cost * DaysPerMonth)

RECURSIVE SumCosts(_, _)
SumCosts(service_costs, field) ==
    IF service_costs = <<>> THEN 0
    ELSE Head(service_costs)[field] + SumCosts(Tail(service_costs), field)

calculate_total_cost(service_costs) ==
    [hourly_cost |-> SumCosts(service_costs, "hourly_cost"),
     daily_cost |-> SumCosts(service_costs, "daily_cost"),
     monthly_cost |-> SumCosts(service_costs, "monthly_cost"),
     total_resources |-> SumCosts(service_costs, "resource_count"),
     service_breakdown |-> service_costs]

----------------------------------------------------------------------------
(* The dry-run simulator (dry_run.py) *)

MaxSimShards == 3

\* A key of a dict that holds a list: missing, or present with its items.
NoKey == [present |-> FALSE, items |-> <<>>]
Key(items) == [present |-> TRUE, items |-> items]
Get(entry) == IF entry.present THEN entry.items ELSE <<>>

NoName == <<"none", 0>>
NoChange == [present |-> FALSE]
Message(msg, id) == [msg |-> msg, id |-> id]

\* 'not resources': the dict has no key at all.
IsEmptyDict(resources) ==
    /\ ~resources.kinesis.present /\ ~resources.lambda.present
    /\ ~resources.sagemaker.present /\ ~resources.cloudwatch.present

Running(status) == status \in {"InService", "Creating", "Updating"}

\* The items of a sequence for which Op gives something, in order.
Collect(items, Op(_)) ==
    SelectSeq([i \in DOMAIN items |-> Op(items[i])], LAMBDA c : c.present)

\* func.get('reserved_concurrency', default): Absent is the missing key.
GetConcurrency(func, default) ==
    IF func.reserved_concurrency = Absent THEN default ELSE func.reserved_concurrency

StopWarning(kind, x) ==
    CASE kind = "kinesis" ->
            IF x.shard_count <= 1
            THEN [present |-> TRUE, msg |-> "already at minimum shard count", id |-> x.name]
            ELSE NoChange
      [] kind = "lambda" ->
            IF GetConcurrency(x, 0) = 0
            THEN [present |-> TRUE, msg |-> "already has concurrency set to 0", id |-> x.name]
            ELSE NoChange
      [] kind = "sagemaker" ->
            IF ~Running(x.status)
            THEN [present |-> TRUE, msg |-> "endpoint is not running", id |-> x.name]
            ELSE NoChange

ValidateStopKind(resources, kind, none_found) ==
    IF ~resources[kind].present THEN <<>>
    ELSE IF resources[kind].items = <<>> THEN <<[present |-> TRUE, msg |-> none_found, id |-> NoName]>>
    ELSE IF kind = "cloudwatch"
         THEN IF \A i \in DOMAIN resources[kind].items : ~resources[kind].items[i].enabled
              THEN <<[present |-> TRUE, msg |-> "All CloudWatch alarms are already disabled",
                      id |-> NoName]>>
              ELSE <<>>
    ELSE Collect(resources[kind].items, LAMBDA x : StopWarning(kind, x))

validate_stop_operation(resources) ==
    IF IsEmptyDict(resources)
    THEN [errors |-> <<Message("No resources found to stop", NoName)>>, warnings |-> <<>>]
    ELSE [errors |-> <<>>,
          warnings |-> ValidateStopKind(resources, "kinesis", "No Kinesis streams found")
                       \o ValidateStopKind(resources, "lambda", "No Lambda functions found")
                       \o ValidateStopKind(resources, "sagemaker", "No SageMaker endpoints found")
                       \o ValidateStopKind(resources, "cloudwatch", "No CloudWatch alarms found")]

ResourceChange(id, type, change, current, proposed, impact, risk, warnings) ==
    [present |-> TRUE, resource_id |-> id, resource_type |-> type, change_type |-> change,
     current_state |-> current, proposed_state |-> proposed,
     cost_impact |-> impact, risk_level |-> risk, warnings |-> warnings]

_simulate_kinesis_stop_AlwaysLow(stream) ==
    IF stream.shard_count <= 1 THEN NoChange
    ELSE ResourceChange(stream.name, "kinesis_stream", "scale_down",
             [shard_count |-> stream.shard_count], [shard_count |-> 1],
             calculate_kinesis_cost(stream.shard_count).monthly_cost
                 - calculate_kinesis_cost(1).monthly_cost,
             "low",
             IF stream.shard_count > 2 THEN <<"may impact throughput">> ELSE <<>>)

_simulate_kinesis_stop(stream) ==
    IF stream.shard_count <= 1 THEN NoChange
    ELSE ResourceChange(stream.name, "kinesis_stream", "scale_down",
             [shard_count |-> stream.shard_count], [shard_count |-> 1],
             calculate_kinesis_cost(stream.shard_count).monthly_cost
                 - calculate_kinesis_cost(1).monthly_cost,
             IF stream.shard_count > 2 THEN "medium" ELSE "low",
             IF stream.shard_count > 2 THEN <<"may impact throughput">> ELSE <<>>)

\* 'current_concurrency or "unlimited"': NoLimit stands for both None and
\* the word the change shows in its place.
_simulate_lambda_stop(func) ==
    LET current_concurrency == GetConcurrency(func, NoLimit)
    IN IF current_concurrency = 0 THEN NoChange
       ELSE ResourceChange(func.name, "lambda_function", "disable",
                [reserved_concurrency |-> current_concurrency], [reserved_concurrency |-> 0],
                0, "high",
                <<"Function will not be able to process any requests",
                  "Event source mappings will be paused">>)

\* The inputs carry no 'instance_count': the default of one instance applies.
_simulate_sagemaker_stop(endpoint) ==
    IF ~Running(endpoint.status) THEN NoChange
    ELSE ResourceChange(endpoint.name, "sagemaker_endpoint", "delete",
             [status |-> endpoint.status, instance_type |-> endpoint.instance_type],
             [status |-> "Deleted"],
             calculate_sagemaker_cost(1, endpoint.instance_type, 1).monthly_cost,
             "high",
             <<"Endpoint will need to be recreated to use again (5-10 minutes)",
               "Inference requests will fail until endpoint is recreated">>)

\* The impact of one alarm is written in the source as 0.10 / 30.
_simulate_cloudwatch_stop(alarm) ==
    IF ~alarm.enabled THEN NoChange
    ELSE ResourceChange(alarm.name, "cloudwatch_alarm", "disable",
             [enabled |-> TRUE], [enabled |-> FALSE],
             CloudWatchPricing_ALARM \div DaysPerMonth, "low",
             <<"Alarm notifications will not be sent">>)

KinesisCosts(resources) ==
    Collect(Get(resources.kinesis),
            LAMBDA stream : IF stream.shard_count > 0
                            THEN [present |-> TRUE] @@ calculate_kinesis_cost(stream.shard_count)
                            ELSE NoChange)

LambdaCosts(resources) ==
    IF Len(Get(resources.lambda)) > 0
    THEN <<[present |-> TRUE] @@ calculate_lambda_cost(Len(resources.lambda.items))>>
    ELSE <<>>

SageMakerCosts(resources) ==
    Collect(Get(resources.sagemaker),
            LAMBDA endpoint : IF endpoint.status = "InService"
                              THEN [present |-> TRUE]
                                   @@ calculate_sagemaker_cost(1, endpoint.instance_type, 1)
                              ELSE NoChange)

CloudWatchCosts(resources) ==
    LET alarms == Get(resources.cloudwatch)
    IN IF Len(alarms) > 0
       THEN <<[present |-> TRUE]
              @@ calculate_cloudwatch_cost(Len(alarms), \E i \in DOMAIN alarms : alarms[i].enabled)>>
       ELSE <<>>

_calculate_current_costs(resources) ==
    calculate_total_cost(KinesisCosts(resources) \o LambdaCosts(resources)
                         \o SageMakerCosts(resources) \o CloudWatchCosts(resources))

\* {**x, field: value} for every item of a list that is there.
SetAll(entry, field, value) ==
    IF entry.present
    THEN Key([i \in DOMAIN entry.items |-> [entry.items[i] EXCEPT ![field] = value]])
    ELSE NoKey

_apply_stop_changes(resources) ==
    [kinesis |-> SetAll(resources.kinesis, "shard_count", 1),
     lambda |-> SetAll(resources.lambda, "reserved_concurrency", 0),
     sagemaker |-> SetAll(resources.sagemaker, "status", "Deleted"),
     cloudwatch |-> SetAll(resources.cloudwatch, "enabled", FALSE)]

DryRunResult(operation, changes, current_costs, proposed_costs, errors, warnings) ==
    [operation |-> operation, changes |-> changes,
     total_cost_impact |-> current_costs.monthly_cost - proposed_costs.monthly_cost,
     current_estimate |-> current_costs, proposed_estimate |-> proposed_costs,
     errors |-> errors, warnings |-> warnings]

simulate_stop_operation(current_resources) ==
    LET val == validate_stop_operation(current_resources)
    IN DryRunResult("stop",
           Collect(Get(current_resources.kinesis), _simulate_kinesis_stop)
               \o Collect(Get(current_resources.lambda), _simulate_lambda_stop)
               \o Collect(Get(current_resources.sagemaker), _simulate_sagemaker_stop)
               \o Collect(Get(current_resources.cloudwatch), _simulate_cloudwatch_stop),
           _calculate_current_costs(current_resources),
           _calculate_current_costs(_apply_stop_changes(current_resources)),
           val.errors, val.warnings)

\* A key of the saved state that holds a dict: missing, or present with a
\* dict that may be empty.
NoDict == [present |-> FALSE, empty |-> TRUE]
EmptySaved == [present |-> TRUE, empty |-> TRUE]
Truthy(entry) == entry.present /\ ~entry.empty

EmptyState ==
    [version |-> FALSE, kinesis |-> NoDict, lambda |-> NoKey,
     sagemaker |-> NoDict, cloudwatch |-> NoDict]

\* 'not state': the saved state has no key at all.
IsEmptyState(state) ==
    /\ ~state.version /\ ~state.kinesis.present /\ ~state.lambda.present
    /\ ~state.sagemaker.present /\ ~state.cloudwatch.present

\* next((x for x in items if x.get('name') == name), None)
HasNamed(items, name) == \E i \in DOMAIN items : items[i].name = name
Named(items, name) ==
    items[CHOOSE i \in DOMAIN items :
              items[i].name = name /\ \A j \in 1..(i - 1) : items[j].name # name]

ValidateStartKinesis(state, current_resources) ==
    IF ~Truthy(state.kinesis) THEN <<>>
    ELSE IF state.kinesis.stream_name = NoName
         THEN <<Message("Kinesis stream name missing from state", NoName)>>
    ELSE IF ~HasNamed(Get(current_resources.kinesis), state.kinesis.stream_name)
         THEN <<Message("Kinesis stream not found", state.kinesis.stream_name)>>
    ELSE <<>>

ValidateStartLambda(state, current_resources) ==
    Collect(Get(state.lambda),
            LAMBDA func_state :
                IF func_state.name = NoName
                THEN [present |-> TRUE] @@ Message("Lambda function name missing from state", NoName)
                ELSE IF ~HasNamed(Get(current_resources.lambda), func_state.name)
                THEN [present |-> TRUE] @@ Message("Lambda function not found", func_state.name)
                ELSE NoChange)

ValidateStartSageMaker(state, current_resources) ==
    IF ~Truthy(state.sagemaker) THEN <<>>
    ELSE IF ~state.sagemaker.endpoint_config
         THEN <<Message("SageMaker endpoint config missing from state", NoName)>>
    ELSE IF /\ state.sagemaker.endpoint_name # NoName
            /\ HasNamed(Get(current_resources.sagemaker), state.sagemaker.endpoint_name)
         THEN <<Message("SageMaker endpoint already exists", state.sagemaker.endpoint_name)>>
    ELSE <<>>

validate_start_operation_NoStateCheck(state, current_resources) ==
    [errors |-> ValidateStartKinesis(state, current_resources)
                \o ValidateStartLambda(state, current_resources),
     warnings |-> (IF state.version THEN <<>>
                   ELSE <<Message("State file missing version information", NoName)>>)
                  \o ValidateStartSageMaker(state, current_resources)]

validate_start_operation(state, current_resources) ==
    IF IsEmptyState(state)
    THEN [errors |-> <<Message("No saved state found - cannot restore resources", NoName)>>,
          warnings |-> <<>>]
    ELSE [errors |-> ValidateStartKinesis(state, current_resources)
                     \o ValidateStartLambda(state, current_resources),
          warnings |-> (IF state.version THEN <<>>
                        ELSE <<Message("State file missing version information", NoName)>>)
                       \o ValidateStartSageMaker(state, current_resources)]

_simulate_kinesis_start(current, target) ==
    IF current.shard_count >= target.shard_count THEN NoChange
    ELSE ResourceChange(current.name, "kinesis_stream", "scale_up",
             [shard_count |-> current.shard_count], [shard_count |-> target.shard_count],
             calculate_kinesis_cost(current.shard_count).monthly_cost
                 - calculate_kinesis_cost(target.shard_count).monthly_cost,
             "low", <<>>)

\* 'target_concurrency or "unlimited"': None and 0 both show as unlimited.
_simulate_lambda_start(current, target) ==
    IF GetConcurrency(current, NoLimit) # 0 THEN NoChange
    ELSE ResourceChange(current.name, "lambda_function", "enable",
             [reserved_concurrency |-> 0],
             [reserved_concurrency |-> IF GetConcurrency(target, NoLimit) = 0 THEN NoLimit
                                       ELSE GetConcurrency(target, NoLimit)],
             0, "low", <<>>)

_simulate_sagemaker_start(target) ==
    IF target.endpoint_name = NoName \/ ~target.endpoint_config THEN NoChange
    ELSE ResourceChange(target.endpoint_name, "sagemaker_endpoint", "create",
             [status |-> "NotFound"], [status |-> "Creating"],
             0 - calculate_sagemaker_cost(1, "ml.m5.large", 1).monthly_cost,
             "medium",
             <<"Endpoint creation will take 5-10 minutes",
               "Endpoint will incur charges immediately upon creation">>)

_simulate_cloudwatch_start(alarm) ==
    IF alarm.enabled THEN NoChange
    ELSE ResourceChange(alarm.name, "cloudwatch_alarm", "enable",
             [enabled |-> FALSE], [enabled |-> TRUE],
             0 - (CloudWatchPricing_ALARM \div DaysPerMonth), "low", <<>>)

\* target['kinesis'].get('shard_count', 2)
DefaultTargetShards == 2

\* A key the saved state lacks is left out of the proposed resources. The
\* saved endpoint carries no 'instance_type': its cost is that of the default.
_apply_start_changes(current, target) ==
    [kinesis |-> IF target.kinesis.present
                 THEN Key([i \in DOMAIN Get(current.kinesis) |->
                              [current.kinesis.items[i] EXCEPT !.shard_count =
                                  IF target.kinesis.empty THEN DefaultTargetShards
                                  ELSE target.kinesis.shard_count]])
                 ELSE NoKey,
     lambda |-> IF target.lambda.present
                THEN Key([i \in DOMAIN Get(current.lambda) |->
                             [current.lambda.items[i] EXCEPT !.reserved_concurrency = NoLimit]])
                ELSE NoKey,
     sagemaker |-> IF target.sagemaker.present
                   THEN Key(<<[name |-> IF target.sagemaker.empty THEN NoName
                                        ELSE target.sagemaker.endpoint_name,
                               status |-> "InService", instance_type |-> "ml.m5.large"]>>)
                   ELSE NoKey,
     cloudwatch |-> IF target.cloudwatch.present
                    THEN Key([i \in DOMAIN Get(current.cloudwatch) |->
                                 [current.cloudwatch.items[i] EXCEPT !.enabled = TRUE]])
                    ELSE NoKey]

StartKinesisChanges(saved_state, current_resources) ==
    IF /\ Truthy(saved_state.kinesis)
       /\ HasNamed(Get(current_resources.kinesis), saved_state.kinesis.stream_name)
    THEN Collect(<<Named(Get(current_resources.kinesis), saved_state.kinesis.stream_name)>>,
                 LAMBDA current : _simulate_kinesis_start(current, saved_state.kinesis))
    ELSE <<>>

StartLambdaChanges(saved_state, current_resources) ==
    Collect(Get(saved_state.lambda),
            LAMBDA func_state :
                IF HasNamed(Get(current_resources.lambda), func_state.name)
                THEN _simulate_lambda_start(
                         Named(Get(current_resources.lambda), func_state.name), func_state)
                ELSE NoChange)

simulate_start_operation(saved_state, current_resources) ==
    LET val == validate_start_operation(saved_state, current_resources)
    IN DryRunResult("start",
           StartKinesisChanges(saved_state, current_resources)
               \o StartLambdaChanges(saved_state, current_resources)
               \o (IF Truthy(saved_state.sagemaker)
                   THEN Collect(<<saved_state.sagemaker>>, _simulate_sagemaker_start)
                   ELSE <<>>)
               \o (IF Truthy(saved_state.cloudwatch)
                   THEN Collect(Get(current_resources.cloudwatch), _simulate_cloudwatch_start)
                   ELSE <<>>),
           _calculate_current_costs(current_resources),
           _calculate_current_costs(_apply_start_changes(current_resources, saved_state)),
           val.errors, val.warnings)

----------------------------------------------------------------------------
(* The simulator applied to its inputs (SpecSim) *)

ListsOf(S) == {NoKey, Key(<<>>)} \cup {Key(<<x>>) : x \in S}

SimStreams == [name : {StreamId}, shard_count : 0..MaxSimShards]
SimFunctions == [name : {FnId(1)}, reserved_concurrency : {Absent, NoLimit} \cup 0..MaxConc]
SimEndpoints ==
    {[name |-> <<"endpoint", 1>>, status |-> "InService", instance_type |-> "ml.m5.large"],
     [name |-> <<"endpoint", 1>>, status |-> "InService", instance_type |-> "ml.t3.medium"],
     [name |-> <<"endpoint", 1>>, status |-> "Failed", instance_type |-> "ml.m5.xlarge"]}
SimAlarmLists ==
    {NoKey} \cup
    UNION {{Key([i \in 1..n |-> [name |-> AlarmId(i), enabled |-> en[i]]]) :
               en \in [1..n -> BOOLEAN]} : n \in 0..MaxAlarms}

CurrentResources ==
    [kinesis : ListsOf(SimStreams), lambda : ListsOf(SimFunctions),
     sagemaker : ListsOf(SimEndpoints), cloudwatch : SimAlarmLists]

SavedKinesis ==
    {NoDict, EmptySaved}
    \cup {[present |-> TRUE, empty |-> FALSE, stream_name |-> n, shard_count |-> DEFAULT_SHARD_COUNT] :
             n \in {StreamId, <<"stream", 2>>, NoName}}
SavedLambda ==
    {NoKey, Key(<<>>), Key(<<[name |-> FnId(1), reserved_concurrency |-> NoLimit]>>),
     Key(<<[name |-> FnId(2), reserved_concurrency |-> 0]>>)}
SavedSageMaker ==
    {NoDict, [present |-> TRUE, empty |-> FALSE,
              endpoint_name |-> <<"endpoint", 1>>, endpoint_config |-> TRUE]}
SavedCloudWatch == {NoDict, [present |-> TRUE, empty |-> FALSE]}

\* The saved states: the empty one, and the versioned ones a stop has left
\* of some of the kinds.
SavedStates ==
    {EmptyState} \cup
    [version : {TRUE}, kinesis : SavedKinesis, lambda : SavedLambda,
     sagemaker : SavedSageMaker, cloudwatch : SavedCloudWatch]

Simulate(result) ==
    /\ sim.active /\ ~sim.result.present
    /\ sim' = [sim EXCEPT !.result = [present |-> TRUE] @@ result]
    /\ UNCHANGED <<lifecycleVars, audit, rw, store, savers>>

SimulateStop == Simulate(simulate_stop_operation(sim.current_resources))

SimulateStart == Simulate(simulate_start_operation(sim.saved_state, sim.current_resources))

InitSim ==
    /\ NoLifecycle /\ rw = NoRetry /\ store = NoStore /\ savers = NoSavers /\ audit = NoAudit
    /\ \E current_resources \in CurrentResources, saved_state \in SavedStates :
          sim = [active |-> TRUE, current_resources |-> current_resources,
                 saved_state |-> saved_state, result |-> NoResult]

NextSim == SimulateStop \/ SimulateStart

SpecSim == InitSim /\ [][NextSim]_vars

----------------------------------------------------------------------------
(* Properties of the simulator (SpecSim) *)

Simulated(operation) == sim.active /\ sim.result.present /\ sim.result.operation = operation

\* One stream of two shards, one function without reserved concurrency, one
\* enabled alarm, and no endpoint.
ExampleResources ==
    /\ Len(Get(sim.current_resources.kinesis)) = 1
    /\ sim.current_resources.kinesis.items[1].shard_count = 2
    /\ Len(Get(sim.current_resources.lambda)) = 1
    /\ sim.current_resources.lambda.items[1].reserved_concurrency \in {Absent, NoLimit}
    /\ Get(sim.current_resources.sagemaker) = <<>>
    /\ Len(Get(sim.current_resources.cloudwatch)) = 1
    /\ sim.current_resources.cloudwatch.items[1].enabled

\* The three changes of the example: the stream to one shard, the function
\* to concurrency 0, the alarm disabled; and no error.
ExampleChanges ==
    /\ Len(sim.result.changes) = 3
    /\ \E i \in DOMAIN sim.result.changes :
          /\ sim.result.changes[i].resource_type = "kinesis_stream"
          /\ sim.result.changes[i].change_type = "scale_down"
          /\ sim.result.changes[i].proposed_state.shard_count = 1
    /\ \E i \in DOMAIN sim.result.changes :
          /\ sim.result.changes[i].resource_type = "lambda_function"
          /\ sim.result.changes[i].proposed_state.reserved_concurrency = 0
    /\ \E i \in DOMAIN sim.result.changes :
          /\ sim.result.changes[i].resource_type = "cloudwatch_alarm"
          /\ sim.result.changes[i].change_type = "disable"
    /\ sim.result.errors = <<>>

\* C28 as stated: simulate_stop_operation on the example yields the three
\* changes, no error, and a positive total cost impact that is the monthly
\* cost of one shard, with nothing from the function or the alarm.
C28_ImpactIsOneShard ==
    (Simulated("stop") /\ ExampleResources) =>
        /\ ExampleChanges
        /\ sim.result.total_cost_impact > 0
        /\ sim.result.total_cost_impact
               = KinesisPricing_SHARD_HOUR * HoursPerDay * DaysPerMonth

\* C29: simulate_start_operation with an empty saved state and resources in
\* the current map reports the missing state as an error and proposes no
\* change.
C29_EmptyStateIsAnError ==
    (Simulated("start") /\ IsEmptyState(sim.saved_state)
        /\ ~IsEmptyDict(sim.current_resources)) =>
        /\ Len(sim.result.errors) >= 1
        /\ \E i \in DOMAIN sim.result.errors :
              sim.result.errors[i].msg = "No saved state found - cannot restore resources"
        /\ sim.result.changes = <<>>

\* A start from the empty state over a stopped function and a disabled
\* alarm, which a saved state would have had changed.
C29_Witness ==
    /\ Simulated("start") /\ IsEmptyState(sim.saved_state)
    /\ \E i \in DOMAIN Get(sim.current_resources.lambda) :
          sim.current_resources.lambda.items[i].reserved_concurrency = 0
    /\ \E i \in DOMAIN Get(sim.current_resources.cloudwatch) :
          ~sim.current_resources.cloudwatch.items[i].enabled
    /\ Len(sim.result.errors) = 1

ShardsRemoved(change) == change.current_state.shard_count - change.proposed_state.shard_count

\* C30: in every result of simulate_stop_operation, a change that disables a
\* function or deletes an endpoint is of high or critical risk, a change that
\* disables an alarm is of low risk, and the scale-down of a stream is of
\* medium risk when it removes more than one shard and of low risk when it
\* removes the one shard above the floor.
C30_RiskLevels ==
    Simulated("stop") =>
        \A i \in DOMAIN sim.result.changes :
            LET change == sim.result.changes[i]
            IN /\ change.resource_type \in {"lambda_function", "sagemaker_endpoint"}
                      => /\ change.change_type \in {"disable", "delete"}
                         /\ change.risk_level \in {"high", "critical"}
               /\ change.resource_type = "cloudwatch_alarm"
                      => change.change_type = "disable" /\ change.risk_level = "low"
               /\ change.resource_type = "kinesis_stream"
                      => /\ change.change_type = "scale_down"
                         /\ change.proposed_state.shard_count = 1
                         /\ ShardsRemoved(change) > 1 => change.risk_level = "medium"
                         /\ ShardsRemoved(change) = 1 => change.risk_level = "low"

\* A stop that takes two shards off a stream, disables a function, deletes
\* an endpoint and disables an alarm.
C30_Witness ==
    /\ Simulated("stop")
    /\ {sim.result.changes[i].resource_type : i \in DOMAIN sim.result.changes}
           = {"kinesis_stream", "lambda_function", "sagemaker_endpoint", "cloudwatch_alarm"}
    /\ \E i \in DOMAIN sim.result.changes :
          /\ sim.result.changes[i].resource_type = "kinesis_stream"
          /\ ShardsRemoved(sim.result.changes[i]) > 1

----------------------------------------------------------------------------
(* The simulator against the managers (SpecSim) *)

\* The cloud that a resource map describes: the stream, the functions and
\* the alarms it lists, with the values the managers read of them.
CloudOf(resources) ==
    [stream |-> IF Len(Get(resources.kinesis)) > 0
                THEN [exists |-> TRUE, shards |-> resources.kinesis.items[1].shard_count,
                      status |-> "ACTIVE"]
                ELSE [exists |-> FALSE, shards |-> 0, status |-> "ACTIVE"],
     functions |-> [f \in Fns |->
                       IF HasNamed(Get(resources.lambda), FnId(f))
                       THEN GetConcurrency(Named(Get(resources.lambda), FnId(f)), NoLimit)
                       ELSE Absent],
     alarms |-> [a \in Alarms |->
                    IF HasNamed(Get(resources.cloudwatch), AlarmId(a))
                    THEN IF Named(Get(resources.cloudwatch), AlarmId(a)).enabled
                         THEN "enabled" ELSE "disabled"
                    ELSE "absent"]]

\* The function_names of a LambdaManager built for the functions of the cloud.
NamesIn(c) == SortedSeq({f \in Fns : c.functions[f] # Absent})

\* A stream the cloud can hold has at least one shard.
Realisable(resources) ==
    \A i \in DOMAIN Get(resources.kinesis) :
        resources.kinesis.items[i].shard_count >= MINIMAL_SHARD_COUNT

\* The cloud after a manager's fault-free, non-dry-run stop or start.
AfterManager(op, kind, c) ==
    IF op = "stop"
    THEN ManagerStop(kind, c, NamesIn(c), FALSE,
                     IF kind = "lambda" THEN NoLFault ELSE NoKFault).cloud
    ELSE ManagerStart(kind, c, NamesIn(c), FALSE,
                      IF kind = "lambda" THEN NoLFault ELSE NoKFault).cloud

\* The resources for which the manager of their kind issues a mutating call.
ManagerMutates(op, c) ==
    {id \in {StreamId} : c.stream.exists
                         /\ AfterManager(op, "kinesis", c).stream.shards # c.stream.shards}
    \cup {FnId(f) : f \in {g \in Fns : AfterManager(op, "lambda", c).functions[g] # c.functions[g]}}
    \cup {AlarmId(a) : a \in {b \in Alarms : AfterManager(op, "cloudwatch", c).alarms[b] # c.alarms[b]}}

\* The resources of the three managed kinds for which the result has a change.
SimulatorChanges(result) ==
    {result.changes[i].resource_id :
        i \in {j \in DOMAIN result.changes :
                  result.changes[j].resource_type # "sagemaker_endpoint"}}

\* The saved state lists the stream, the functions and the alarms of the map.
SavedCovers(state, resources) ==
    /\ Len(Get(resources.kinesis)) > 0
           => Truthy(state.kinesis) /\ state.kinesis.stream_name = StreamId
    /\ \A i \in DOMAIN Get(resources.lambda) :
           HasNamed(Get(state.lambda), resources.lambda.items[i].name)
    /\ Len(Get(resources.cloudwatch)) > 0 => Truthy(state.cloudwatch)

\* C31: the simulator reports a change for a resource under stop (under
\* start) exactly when the manager of its kind would issue a mutating call
\* for the resource in that state.
C31_SameThresholds ==
    /\ (Simulated("stop") /\ Realisable(sim.current_resources))
           => SimulatorChanges(sim.result) = ManagerMutates("stop", CloudOf(sim.current_resources))
    /\ (Simulated("start") /\ Realisable(sim.current_resources)
           /\ SavedCovers(sim.saved_state, sim.current_resources))
           => SimulatorChanges(sim.result) = ManagerMutates("start", CloudOf(sim.current_resources))

\* The change reported for a resource, if there is one.
HasChange(changes, type, id) ==
    \E i \in DOMAIN changes : changes[i].resource_type = type /\ changes[i].resource_id = id
ChangeOf(changes, type, id) ==
    changes[CHOOSE i \in DOMAIN changes :
                changes[i].resource_type = type /\ changes[i].resource_id = id]

\* The items of a list with the proposed value of field for those that have
\* a change reported, and as they are for the others.
WithProposed(entry, changes, type, field) ==
    IF entry.present
    THEN Key([i \in DOMAIN entry.items |->
                 IF HasChange(changes, type, entry.items[i].name)
                 THEN [entry.items[i] EXCEPT ![field] =
                          ChangeOf(changes, type, entry.items[i].name).proposed_state[field]]
                 ELSE entry.items[i]])
    ELSE NoKey

\* The endpoints after the reported deletions and creations; a created
\* endpoint is billed from its creation, at the default instance type.
EndpointsAfter(entry, changes) ==
    LET kept == [i \in DOMAIN Get(entry) |->
                    IF /\ HasChange(changes, "sagemaker_endpoint", entry.items[i].name)
                       /\ ChangeOf(changes, "sagemaker_endpoint", entry.items[i].name).change_type
                              = "delete"
                    THEN [entry.items[i] EXCEPT !.status = "Deleted"]
                    ELSE entry.items[i]]
        created == SelectSeq(changes, LAMBDA c : c.resource_type = "sagemaker_endpoint"
                                                  /\ c.change_type = "create")
    IN IF ~entry.present /\ created = <<>> THEN NoKey
       ELSE Key(kept \o [i \in DOMAIN created |->
                            [name |-> created[i].resource_id, status |-> "InService",
                             instance_type |-> "ml.m5.large"]])

\* The resource map with exactly the reported changes applied.
ApplyReported(resources, changes) ==
    [kinesis |-> WithProposed(resources.kinesis, changes, "kinesis_stream", "shard_count"),
     lambda |-> WithProposed(resources.lambda, changes, "lambda_function", "reserved_concurrency"),
     sagemaker |-> EndpointsAfter(resources.sagemaker, changes),
     cloudwatch |-> WithProposed(resources.cloudwatch, changes, "cloudwatch_alarm", "enabled")]

\* C32: the after-cost of a simulation is the cost of the input with exactly
\* the reported changes applied, and the total cost impact is the before-cost
\* minus that; so a result without changes has no cost impact.
C32_AfterCostOfReportedChanges ==
    (sim.active /\ sim.result.present /\ Realisable(sim.current_resources)) =>
        /\ sim.result.proposed_estimate.monthly_cost
               = _calculate_current_costs(
                     ApplyReported(sim.current_resources, sim.result.changes)).monthly_cost
        /\ sim.result.total_cost_impact
               = sim.result.current_estimate.monthly_cost
                     - sim.result.proposed_estimate.monthly_cost
        /\ sim.result.changes = <<>> => sim.result.total_cost_impact = 0

\* The sum of the managers' estimate_cost over the cloud of a resource map.
LiveHourlyCost(resources) ==
    EstimateCost("kinesis", CloudOf(resources), NoStatusFault)
        + EstimateCost("lambda", CloudOf(resources), NoStatusFault)
        + EstimateCost("cloudwatch", CloudOf(resources), NoStatusFault)

\* No endpoint is billed: the map costs what the three managed kinds cost.
NoEndpointBilled(resources) ==
    \A i \in DOMAIN Get(resources.sagemaker) : resources.sagemaker.items[i].status # "InService"

\* C33: the hourly cost the simulator computes for a resource state is the
\* sum of the three managers' estimate_cost for that state.
C33_SameHourlyCost ==
    (sim.active /\ sim.result.present /\ Realisable(sim.current_resources)
        /\ NoEndpointBilled(sim.current_resources)) =>
        sim.result.current_estimate.hourly_cost = LiveHourlyCost(sim.current_resources)

----------------------------------------------------------------------------
(* Properties of the controller (Spec), the savings of a stop *)

\* C34: the savings a completed stop_all_resources reports are those of the
\* fixed formula, one shard-hour price times 24 with nothing for the
\* functions and the alarms, whatever the managers returned or raised,
\* whatever shard count the stream had and whether its stop changed anything.
C34_SavingsByFixedFormula ==
    Done("stop") => ctl.cost_impact = SHARD_HOUR_COST * 24

\* A stop in which the stream's manager has raised.
C34_Witness ==
    /\ Done("stop") /\ ~ctl.is_dry
    /\ \E i \in Threw(ctl) : ctl.service_results[i].kind = "kinesis"
    /\ ctl.cost_impact > 0

----------------------------------------------------------------------------
(* Stops in a row, then a restore (SpecStops) *)

MaxStops == 2

NoCFault == [read |-> FALSE, write |-> FALSE]
NoRestoreFault == [lambda |-> NoLFault, kinesis |-> NoKFault, cloudwatch |-> NoCFault]

\* ResourceController.restore_state: load_state, then the three
\* restore_configuration calls, each in its own try; a manager that raises
\* makes the result False, a state that cannot be loaded raises StateError.
restore_state(c, file, load_fails, fault) ==
    IF ~file.present \/ load_fails
    THEN [threw |-> TRUE, success |-> FALSE, cloud |-> c]
    ELSE LET l == LambdaRestore(c, [has_functions |-> TRUE,
                                    functions |-> file.resources.lambda_functions],
                                fault.lambda)
             k == IF file.resources.kinesis_streams # <<>>
                  THEN KinesisRestore(l.cloud, file.resources.kinesis_streams[1], fault.kinesis)
                  ELSE Returned(RestoreTrue, l.cloud, <<>>)
             w == CloudWatchRestore(k.cloud, [has_alarms |-> TRUE,
                                              alarms |-> file.resources.cloudwatch_alarms],
                                    fault.cloudwatch)
         IN [threw |-> FALSE, success |-> ~l.threw /\ ~k.threw /\ ~w.threw, cloud |-> w.cloud]

\* The cloud after the three manager stops of stop_all_resources, none of
\* whose cloud calls fails: Lambda, then Kinesis, then CloudWatch.
StoppedCloud(c, names) ==
    CloudWatchStop(KinesisStop(LambdaStop(c, names, FALSE, NoLFault).cloud,
                               FALSE, NoKFault).cloud,
                   FALSE, NoCFault).cloud

\* One stop_all_resources(dry_run=False) in which every cloud call and the
\* write of the state file succeed.
StopAllClean ==
    /\ Ready /\ ~dry_run
    /\ cloud.stream.status = "ACTIVE"
    /\ IF lastCall.present THEN ~lastCall.restored /\ lastCall.stops < MaxStops ELSE TRUE
    /\ LET saved == ControllerSaveState(cloud, function_names, state_file, backup_file, NoSaveFault)
       IN /\ state_file' = saved.file
          /\ backup_file' = saved.backup
    /\ cloud' = StoppedCloud(cloud, function_names)
    /\ lastCall' = [present |-> TRUE, kind |-> "controller", op |-> "stop_all",
                    pre |-> IF lastCall.present THEN lastCall.pre ELSE cloud,
                    stops |-> IF lastCall.present THEN lastCall.stops + 1 ELSE 1,
                    restored |-> FALSE, success |-> FALSE]
    /\ UNCHANGED <<function_names, dry_run, audit, ctl, prevStop, rw, store, savers, sim>>

\* The resharding a stop or a restore has started completes.
StopsStreamSettles ==
    /\ cloud.stream.exists /\ cloud.stream.status = "UPDATING"
    /\ cloud' = [cloud EXCEPT !.stream.status = "ACTIVE"]
    /\ UNCHANGED <<function_names, dry_run, audit, state_file, backup_file, ctl, lastCall, prevStop,
                   rw, store, savers, sim, audit>>

\* restore_state() after the stops, every cloud call succeeding.
RestoreClean ==
    /\ Ready /\ lastCall.present /\ ~lastCall.restored
    /\ cloud.stream.status = "ACTIVE"
    /\ LET out == restore_state(cloud, state_file, FALSE, NoRestoreFault)
       IN /\ cloud' = out.cloud
          /\ lastCall' = [lastCall EXCEPT !.restored = TRUE, !.success = out.success /\ ~out.threw]
    /\ UNCHANGED <<function_names, dry_run, audit, state_file, backup_file, ctl, prevStop,
                   rw, store, savers, sim, audit>>

\* A cloud with the stream and every managed function in place, so that no
\* read of a resource answers 'not found'.
InitStops ==
    /\ CloudInit({0})
    /\ cloud.stream.exists /\ ~dry_run
    /\ state_file = NoFile /\ backup_file = NoFile
    /\ ctl = Idle
    /\ lastCall = NoCall /\ prevStop = "none"
    /\ rw = NoRetry /\ store = NoStore /\ savers = NoSavers /\ sim = NoSim /\ audit = NoAudit

NextStops == StopAllClean \/ StopsStreamSettles \/ RestoreClean

SpecStops == InitStops /\ [][NextStops]_vars

\* The configuration of two clouds is the same: shard count, reserved
\* concurrency of every function, action flag of every alarm.
SameConfiguration(c, d) ==
    /\ c.stream.shards = d.stream.shards
    /\ c.functions = d.functions
    /\ c.alarms = d.alarms

\* C35: after one or more stops in a row, the state file still records the
\* configuration that was live before the first of them, and restore_state
\* brings every resource back to it.
C35_SnapshotKeepsOperational ==
    (lastCall.present /\ lastCall.op = "stop_all") =>
        /\ state_file = PriorDoc(lastCall.pre, function_names)
        /\ lastCall.restored => SameConfiguration(cloud, lastCall.pre)

----------------------------------------------------------------------------
(* audit_trail.py: the AuditTrail (SpecAudit) *)

MaxOperations == 2
MaxEntries == 1
MaxSeconds == 1

OperationTypes == {"stop", "start"}

\* self.current_operation = None.
NoOperation == [present |-> FALSE]

\* OperationRecord as start_operation builds it. The operation id is the type
\* and the time to the second; serial numbers the calls of start_operation
\* and is no field of the record. The lists are kept by their lengths.
OperationRecord(operation_type, now, is_dry, serial) ==
    [present |-> TRUE, operation_id |-> <<operation_type, now>>,
     operation_type |-> operation_type, status |-> "started", dry_run |-> is_dry,
     resource_changes |-> 0, errors |-> 0, warnings |-> 0,
     cost_impact |-> "None", serial |-> serial]

\* What is kept of the last call on the trail: the operation active when it
\* was made, whether it raised, what it returned, whether it changed the
\* trail or wrote a report.
AuditCall(name, success, raised, result, changed) ==
    [call |-> name, success |-> success,
     before |-> IF name = "complete_operation" THEN audit.current_operation
                ELSE [present |-> audit.current_operation.present],
     raised |-> raised, result |-> result, changed |-> changed]

\* What is kept of a completed operation.
Completed(op) == [serial |-> op.serial, operation_id |-> op.operation_id, status |-> op.status]

NewAuditTrail ==
    [active |-> TRUE, current_operation |-> NoOperation, now |-> 0,
     started |-> 0, completed |-> <<>>, reports |-> {},
     last |-> [call |-> "none"]]

\* start_operation: a new record replaces self.current_operation.
start_operation(operation_type, is_dry) ==
    /\ audit.active /\ audit.started < MaxOperations
    /\ audit' = [audit EXCEPT
          !.current_operation = OperationRecord(operation_type, audit.now, is_dry, audit.started + 1),
          !.started = @ + 1,
          !.last = AuditCall("start_operation", TRUE, FALSE, "operation_id", TRUE)]
    /\ UNCHANGED <<lifecycleVars, rw, store, savers, sim>>

\* A call that returns at once when no operation is active and otherwise
\* updates the current operation to op.
Recorded(name, success, op) ==
    IF ~audit.current_operation.present
    THEN audit' = [audit EXCEPT !.last = AuditCall(name, success, FALSE, "None", FALSE)]
    ELSE audit' = [audit EXCEPT !.current_operation = op,
                                !.last = AuditCall(name, success, FALSE, "None", TRUE)]

Longer(n) == IF n < MaxEntries THEN n + 1 ELSE n

record_resource_change(success, error_message) ==
    /\ audit.active
    /\ LET op == audit.current_operation
       IN Recorded("record_resource_change", TRUE,
                   [op EXCEPT !.resource_changes = Longer(@),
                              !.errors = IF ~success /\ error_message THEN Longer(@) ELSE @])
    /\ UNCHANGED <<lifecycleVars, rw, store, savers, sim>>

add_error ==
    /\ audit.active
    /\ Recorded("add_error", TRUE, [audit.current_operation EXCEPT !.errors = Longer(@)])
    /\ UNCHANGED <<lifecycleVars, rw, store, savers, sim>>

add_warning ==
    /\ audit.active
    /\ Recorded("add_warning", TRUE, [audit.current_operation EXCEPT !.warnings = Longer(@)])
    /\ UNCHANGED <<lifecycleVars, rw, store, savers, sim>>

set_cost_impact ==
    /\ audit.active
    /\ Recorded("set_cost_impact", TRUE, [audit.current_operation EXCEPT !.cost_impact = "set"])
    /\ UNCHANGED <<lifecycleVars, rw, store, savers, sim>>

\* The final status complete_operation determines.
FinalStatus(op, success) ==
    IF ~success \/ op.errors > 0
    THEN IF op.resource_changes > 0 THEN "partial" ELSE "failed"
    ELSE "success"

\* _save_json_report / _save_text_report: the file named after the operation
\* id is written anew; a failure to write is logged and nothing is raised.
SaveReport(reports, op, ext, written) ==
    IF written
    THEN {r \in reports : r.name # <<op.operation_id, ext>>}
             \cup {[name |-> <<op.operation_id, ext>>, status |-> op.status, serial |-> op.serial]}
    ELSE reports

\* complete_operation: ValueError with no active operation; otherwise the
\* status is set, both reports are saved and the active operation is cleared.
complete_operation(success, json_written, text_written) ==
    /\ audit.active
    /\ IF ~audit.current_operation.present
       THEN audit' = [audit EXCEPT !.last = AuditCall("complete_operation", success, TRUE, "ValueError", FALSE)]
       ELSE LET op == [audit.current_operation EXCEPT
                            !.status = FinalStatus(audit.current_operation, success)]
            IN audit' = [audit EXCEPT
                  !.current_operation = NoOperation,
                  !.completed = Append(@, Completed(op)),
                  !.reports = SaveReport(SaveReport(@, op, "json", json_written), op, "txt", text_written),
                  !.last = AuditCall("complete_operation", success, FALSE, Completed(op), TRUE)]
    /\ UNCHANGED <<lifecycleVars, rw, store, savers, sim>>

\* A second of the clock goes by.
AuditTick ==
    /\ audit.active /\ audit.now < MaxSeconds
    /\ audit' = [audit EXCEPT !.now = @ + 1]
    /\ UNCHANGED <<lifecycleVars, rw, store, savers, sim>>

InitAudit ==
    /\ NoLifecycle /\ rw = NoRetry /\ store = NoStore /\ savers = NoSavers /\ sim = NoSim
    /\ audit = NewAuditTrail

NextAudit ==
    \/ \E operation_type \in OperationTypes, is_dry \in BOOLEAN : start_operation(operation_type, is_dry)
    \/ \E success, error_message \in BOOLEAN : record_resource_change(success, error_message)
    \/ add_error
    \/ add_warning
    \/ set_cost_impact
    \/ \E success, json_written, text_written \in BOOLEAN :
            complete_operation(success, json_written, text_written)
    \/ AuditTick

SpecAudit == InitAudit /\ [][NextAudit]_vars

\* The started operations that were completed, by serial.
CompletedSerials == {audit.completed[i].serial : i \in 1..Len(audit.completed)}

\* Each started operation is the active one or was completed once, and each
\* completed one has its two reports, saying its final status.
CompletedAndReportedOnce ==
    /\ \A n \in 1..audit.started :
          IF audit.current_operation.present /\ audit.current_operation.serial = n
          THEN n \notin CompletedSerials
          ELSE Cardinality({i \in 1..Len(audit.completed) : audit.completed[i].serial = n}) = 1
    /\ \A i \in 1..Len(audit.completed) : \A ext \in {"json", "txt"} :
          \E r \in audit.reports :
              /\ r.name = <<audit.completed[i].operation_id, ext>>
              /\ r.serial = audit.completed[i].serial
              /\ r.status = audit.completed[i].status

\* What the last call on the trail did.
LastCallAsStated ==
    LET last == audit.last IN
    /\ (last.call = "complete_operation" /\ last.before.present) =>
          /\ ~last.raised
          /\ last.result.status = "success" <=> (last.success /\ last.before.errors = 0)
          /\ last.result.status # "success" =>
                last.result.status = (IF last.before.resource_changes > 0 THEN "partial" ELSE "failed")
          /\ ~audit.current_operation.present
    /\ (last.call = "complete_operation" /\ ~last.before.present) =>
          last.raised /\ ~last.changed
    /\ (last.call \in {"record_resource_change", "add_error", "add_warning", "set_cost_impact"}
        /\ ~last.before.present) =>
          ~last.raised /\ ~last.changed /\ ~audit.current_operation.present

\* C38: the trail tracks at most one active operation and every started
\* operation is completed and reported exactly once; complete_operation sets
\* SUCCESS exactly when success is true and no error was recorded, otherwise
\* PARTIAL with a recorded resource change and FAILED with none, and clears
\* the active operation; a second complete_operation raises and record / add
\* calls with no active operation change nothing.
C38_OneOperationReportedOnce ==
    audit.active => (LastCallAsStated /\ CompletedAndReportedOnce)

====
